---- MODULE Spec2Model ----
(***************************************************************************)
(* Model of motors_elmo_ds402::Controller (src/src/Controller.cpp, with    *)
(* its declaration in Controller.hpp) and of the command line tool         *)
(* (src/src/Main.cpp).                                                     *)
(*                                                                         *)
(* The tool.  main() is a sequential program: pc is the statement it is    *)
(* at and call the writeObject(s)/queryObject(s) call in progress.  It     *)
(* talks to a drive that answers every upload and download once, follows   *)
(* the NMT commands and sends its synchronous PDOs on a SYNC; SIGINT and   *)
(* a heartbeat of the drive arrive at any time.  Read timeouts and the     *)
(* --time variant of monitor-joint-state are not modelled.                 *)
(*                                                                         *)
(* Numbers.  A C++ double is modelled as an exact rational <<n, d>> in     *)
(* lowest terms with d >= 0:  d > 0 is a finite value, <<1,0>> and         *)
(* <<-1,0>> are +infinity and -infinity, <<0,0>> is NaN.  base::unknown    *)
(* and the "unset" field of base::JointState are NaN, as in base/Float.hpp.*)
(* Rounding of the binary floating point format is not modelled; finite    *)
(* values whose magnitude exceeds Huge are collapsed to +-Huge.            *)
(***************************************************************************)
EXTENDS Integers, Sequences, FiniteSets, TLC

VARIABLES
    mCanOpen,          \* raw object cache of the CANopen engine: object -> <<>> (never read/set) or <<value>>
    mRatedTorque,      \* Controller::mRatedTorque
    mFactors,          \* Controller::mFactors
    mZeroPosition,     \* Controller::mZeroPosition
    mMotorParameters,  \* Controller::mMotorParameters
    nFactorReports,    \* number of process() calls so far that carried a factor object
    ratedTorqueSupplied, \* history: the drive reported MotorRatedTorque, or the application
                       \* called setRatedTorque or gave MotorParameters with a torqueConstant
    mRPDOMappings,     \* engine: the mapping declared for each receive PDO, <<>> when none
    mTPDOMappings,     \* engine: the mapping declared for each transmit PDO, <<>> when none
    lastReported,      \* history: the value the drive last reported for each ratio object,
                       \* <<>> when it never reported one
    ret,               \* the last call made on the controller and what it returned
    cmd,               \* Main.cpp: argv[4], "none" while no command runs
    pc,                \* Main.cpp: the statement main() is at
    call,              \* Main.cpp: the writeObject(s)/queryObject(s) call in progress
    interrupted,       \* Main.cpp: the flag set by the SIGINT handler
    cycleState,        \* Main.cpp: "Update state", accumulated in the current cycle
    target_torque,     \* Main.cpp: atof(argv[5]) of set-torque
    cycles,            \* number of loop cycles started
    toDrive,           \* CAN bus: the messages written and not yet handled by the drive
    bus,               \* CAN bus: the messages of the drive not yet read
    drive,             \* the drive: NMT state, transmit PDOs, heartbeats sent
    trace              \* history: what main() wrote, read and called, in order

vars == <<mCanOpen, mRatedTorque, mFactors, mZeroPosition, mMotorParameters,
          nFactorReports, ratedTorqueSupplied, mRPDOMappings, mTPDOMappings,
          lastReported, ret, cmd, pc, call, interrupted, cycleState, target_torque,
          cycles, toDrive, bus, drive, trace>>

\* the state of main() and of the bus
cliVars == <<cmd, pc, call, interrupted, cycleState, target_torque, cycles,
             toDrive, bus, drive, trace>>

\* the PDO mappings the engine holds
pdoVars == <<mRPDOMappings, mTPDOMappings>>

----------------------------------------------------------------------------
(* Rational arithmetic standing for double arithmetic. *)

Abs(x) == IF x < 0 THEN -x ELSE x

Sign(x) == IF x < 0 THEN -1 ELSE IF x > 0 THEN 1 ELSE 0

RECURSIVE Gcd(_, _)
Gcd(a, b) == IF b = 0 THEN a ELSE Gcd(b, a % b)

\* magnitude beyond which finite values are collapsed
Huge == 1000000000

NaN == <<0, 0>>

PlusInfinity == <<1, 0>>

MinusInfinity == <<-1, 0>>

\* the rational n/d (d may be negative or zero) in normal form
Rat(n, d) ==
    IF d = 0 THEN <<Sign(n), 0>>
    ELSE LET g == Gcd(Abs(n), Abs(d))
             s == IF d < 0 THEN -1 ELSE 1
         IN  <<s * (n \div g), s * (d \div g)>>

Int2Dbl(i) == <<i, 1>>

IsNaN(x) == x = NaN

IsFinite(x) == x[2] > 0

\* a * b for two integers, collapsed to +-Huge when the magnitude exceeds Huge
SatMul(a, b) ==
    IF a = 0 \/ b = 0 THEN 0
    ELSE IF Abs(a) > Huge \div Abs(b) THEN Sign(a) * Sign(b) * Huge
    ELSE a * b

RNeg(x) == <<-x[1], x[2]>>

RMul(x, y) ==
    IF IsNaN(x) \/ IsNaN(y) THEN NaN
    ELSE IF x[2] = 0 \/ y[2] = 0
         THEN <<Sign(x[1]) * Sign(y[1]), 0>>     \* inf * 0 = NaN, inf * v = +-inf
    ELSE LET g1 == Gcd(Abs(x[1]), y[2])
             g2 == Gcd(Abs(y[1]), x[2])
             n  == SatMul(x[1] \div g1, y[1] \div g2)
             d  == SatMul(x[2] \div g2, y[2] \div g1)
         IN  IF Abs(n) = Huge THEN <<n, 1>> ELSE Rat(n, d)

\* 1 / y, the sign of a zero divisor taken as positive
RInv(y) ==
    IF IsNaN(y) THEN NaN
    ELSE IF y[2] = 0 THEN <<0, 1>>
    ELSE IF y[1] = 0 THEN PlusInfinity
    ELSE Rat(y[2], y[1])

RDiv(x, y) ==
    IF IsNaN(x) \/ IsNaN(y) THEN NaN
    ELSE IF x[2] = 0 /\ y[2] = 0 THEN NaN        \* inf / inf
    ELSE IF x[1] = 0 /\ y[1] = 0 THEN NaN        \* 0 / 0
    ELSE RMul(x, RInv(y))

\* x < y as doubles compare: false whenever one side is NaN
RLess(x, y) ==
    IF IsNaN(x) \/ IsNaN(y) THEN FALSE
    ELSE IF x[2] = 0 /\ y[2] = 0 THEN x[1] < y[1]
    ELSE IF x[2] = 0 THEN x[1] < 0
    ELSE IF y[2] = 0 THEN y[1] > 0
    ELSE SatMul(x[1], y[2]) < SatMul(y[1], x[2])

\* conversion of a finite double to an integer: truncation toward zero
Trunc(x) == Sign(x[1]) * (Abs(x[1]) \div x[2])

----------------------------------------------------------------------------
(* The object catalogue, as far as Controller.cpp names it. *)

\* objects listed under "UPDATE_FACTORS" in the switch of Controller::process
FactorObjects ==
    {"PositionEncoderResolutionNum", "PositionEncoderResolutionDen",
     "VelocityEncoderResolutionNum", "VelocityEncoderResolutionDen",
     "AccelerationFactorNum", "AccelerationFactorDen",
     "GearRatioNum", "GearRatioDen", "FeedConstantNum", "FeedConstantDen",
     "VelocityFactorNum", "VelocityFactorDen",
     "MotorRatedCurrent", "MotorRatedTorque"}

\* objects listed under "UPDATE_JOINT_STATE"
JointStateObjects ==
    {"PositionActualInternalValue", "VelocityActualValue", "CurrentActualValue"}

\* objects listed under "UPDATE_JOINT_LIMITS"
JointLimitObjects ==
    {"SoftwarePositionLimitMin", "SoftwarePositionLimitMax", "MaxMotorSpeed",
     "MaxAcceleration", "MaxDeceleration", "MaxCurrent"}

\* the switch without its last case label
SDO_UPDATE_CASES_WithoutMaxCurrent ==
    ({"StatusWord", "ModesOfOperation"} \cup FactorObjects
        \cup JointStateObjects \cup JointLimitObjects) \ {"MaxCurrent"}

\* the case labels of the switch(fullId) in Controller::process
SDO_UPDATE_CASES ==
    {"StatusWord", "ModesOfOperation"} \cup FactorObjects
        \cup JointStateObjects \cup JointLimitObjects

\* every object Controller.cpp reads, writes or sends; StoreParameters is object
\* 0x1010 of querySave
Objects ==
    {"StatusWord", "ModesOfOperation"} \cup FactorObjects
        \cup JointStateObjects \cup JointLimitObjects \cup
    {"TargetPosition", "TargetVelocity", "TargetTorque",
     "CANControllerStatus", "ControlWord", "StoreParameters"}

\* the objects Controller::computeFactors reads
ComputeFactorsObjects ==
    {"PositionEncoderResolutionNum", "PositionEncoderResolutionDen",
     "GearRatioNum", "GearRatioDen", "FeedConstantNum", "FeedConstantDen",
     "MotorRatedTorque", "MotorRatedCurrent"}

UPDATE_FACTORS == {"FACTORS"}

UPDATE_JOINT_POSITION == {"JOINT_POSITION"}

UPDATE_JOINT_VELOCITY == {"JOINT_VELOCITY"}

UPDATE_JOINT_CURRENT == {"JOINT_CURRENT"}

UPDATE_JOINT_STATE ==
    UPDATE_JOINT_POSITION \cup UPDATE_JOINT_VELOCITY \cup UPDATE_JOINT_CURRENT

UPDATE_JOINT_LIMITS == {"JOINT_LIMITS"}

UPDATE_HEARTBEAT == {"HEARTBEAT"}

\* T::UPDATE_ID: the semantic group bits of an object (a bitmask is a set of bits,
\* | is \cup and & is \cap); an object without a group has no bit
UPDATE_ID(object) ==
    IF object = "StatusWord" THEN {"STATUS_WORD"}
    ELSE IF object = "ModesOfOperation" THEN {"OPERATION_MODE"}
    ELSE IF object \in FactorObjects THEN UPDATE_FACTORS
    ELSE IF object = "PositionActualInternalValue" THEN UPDATE_JOINT_POSITION
    ELSE IF object = "VelocityActualValue" THEN UPDATE_JOINT_VELOCITY
    ELSE IF object = "CurrentActualValue" THEN UPDATE_JOINT_CURRENT
    ELSE IF object \in JointLimitObjects THEN UPDATE_JOINT_LIMITS
    ELSE {}

----------------------------------------------------------------------------
(* The raw object cache of the CANopen engine. *)

NotRead == <<>>

has(cache, object) == cache[object] # NotRead

\* Controller::getRaw on an object that has() it
getRaw(cache, object) == cache[object][1]

\* Controller::setRaw
setRaw(cache, object, value) == [cache EXCEPT ![object] = <<value>>]

\* StateMachine::process: a message that carries values (not the acknowledgment
\* of a download) stores each of them in the cache
RECURSIVE EngineStore(_, _)
EngineStore(cache, updated) ==
    IF updated = <<>> THEN cache
    ELSE EngineStore(setRaw(cache, Head(updated).object, Head(updated).value),
                     Tail(updated))

EngineProcess(cache, msg) ==
    IF msg.mode = "PROCESSED_SDO_INITIATE_DOWNLOAD" THEN cache
    ELSE EngineStore(cache, msg.updated)

----------------------------------------------------------------------------
(* Factors and MotorParameters. *)

\* a default-constructed Factors: identity ratios, rated values unknown
DefaultFactors ==
    [encoderTicks |-> 1, encoderRevolutions |-> 1,
     gearMotorShaftRevolutions |-> 1, gearDrivingShaftRevolutions |-> 1,
     feedLength |-> 1, feedDrivingShaftRevolutions |-> 1,
     ratedTorque |-> NaN, ratedCurrent |-> NaN,
     encoderScaleFactor |-> Int2Dbl(1)]

\* a default-constructed MotorParameters: nothing overridden
DefaultMotorParameters ==
    [encoderTicks |-> 0, encoderRevolutions |-> 0,
     gearMotorShaftRevolutions |-> 0, gearDrivingShaftRevolutions |-> 0,
     feedLength |-> 0, feedDrivingShaftRevolutions |-> 0,
     torqueConstant |-> NaN]

\* Controller::computeFactors, when every object it reads is in the cache
computeFactors(cache) ==
    [DefaultFactors EXCEPT
        !.encoderTicks = getRaw(cache, "PositionEncoderResolutionNum"),
        !.encoderRevolutions = getRaw(cache, "PositionEncoderResolutionDen"),
        !.gearMotorShaftRevolutions = getRaw(cache, "GearRatioNum"),
        !.gearDrivingShaftRevolutions = getRaw(cache, "GearRatioDen"),
        !.feedLength = getRaw(cache, "FeedConstantNum"),
        !.feedDrivingShaftRevolutions = getRaw(cache, "FeedConstantDen"),
        !.ratedTorque = Rat(getRaw(cache, "MotorRatedTorque"), 1000),
        !.ratedCurrent = Rat(getRaw(cache, "MotorRatedCurrent"), 1000)]

\* whether computeFactors throws ObjectNotRead
computeFactorsThrows(cache) ==
    \E object \in ComputeFactorsObjects : ~has(cache, object)

\* setRaw<T>(value) without the test of the value
setRawIf_Always(cache, object, value) == setRaw(cache, object, value)

\* setRaw<T>(value) under "if (value)"
setRawIf(cache, object, value) ==
    IF value # 0 THEN setRaw(cache, object, value) ELSE cache

\* the six conditional setRaw calls of Controller::setMotorParameters
OverrideRatios(cache, parameters) ==
    LET c1 == setRawIf(cache, "PositionEncoderResolutionNum", parameters.encoderTicks)
        c2 == setRawIf(c1, "PositionEncoderResolutionDen", parameters.encoderRevolutions)
        c3 == setRawIf(c2, "GearRatioNum", parameters.gearMotorShaftRevolutions)
        c4 == setRawIf(c3, "GearRatioDen", parameters.gearDrivingShaftRevolutions)
        c5 == setRawIf(c4, "FeedConstantNum", parameters.feedLength)
    IN  setRawIf(c5, "FeedConstantDen", parameters.feedDrivingShaftRevolutions)

\* the rated torque override computed from the rated torque in the cache, so
\* that each application scales it again
OverrideRatedTorque_Compounding(cache, parameters) ==
    IF IsNaN(parameters.torqueConstant) THEN cache
    ELSE setRaw(cache, "MotorRatedTorque",
                Trunc(RMul(Int2Dbl(getRaw(cache, "MotorRatedTorque")),
                           parameters.torqueConstant)))

\* the rated torque override: current_mA * torqueConstant, converted to the
\* integer type of MotorRatedTorque
OverrideRatedTorque(cache, parameters) ==
    IF IsNaN(parameters.torqueConstant) THEN cache
    ELSE setRaw(cache, "MotorRatedTorque",
                Trunc(RMul(Int2Dbl(getRaw(cache, "MotorRatedCurrent")),
                           parameters.torqueConstant)))

\* Controller::setMotorParameters, as the state it leaves:
\* threw is TRUE when getRaw<MotorRatedCurrent> throws ObjectNotRead
setMotorParameters(cache, factors, parameters) ==
    LET c6 == OverrideRatios(cache, parameters)
    IN  IF ~IsNaN(parameters.torqueConstant) /\ ~has(c6, "MotorRatedCurrent")
        THEN [cache |-> c6, factors |-> factors, threw |-> TRUE]
        ELSE LET c7 == OverrideRatedTorque(c6, parameters)
             IN  [cache |-> c7,
                  factors |-> IF computeFactorsThrows(c7) THEN factors
                              ELSE computeFactors(c7),
                  threw |-> FALSE]

----------------------------------------------------------------------------
(* Update, the result of Controller::process. *)

Ack(object) == [mode |-> "ACK", updated |-> {}, ackId |-> object]

UpdatedObjects(update) ==
    [mode |-> "UPDATED_OBJECTS", updated |-> update, ackId |-> "none"]

isAck(result) == result.mode = "ACK"

\* Update::isUpdated: every bit of the mask is set
isUpdated(result, mask) == mask \subseteq result.updated

\* Update::hasOneUpdated: some bit of the mask is set
hasOneUpdated(result, mask) == result.updated \cap mask # {}

----------------------------------------------------------------------------
(* Controller::process. *)

\* MODE_UPDATE_CASE(PROCESSED_HEARTBEAT, Heartbeat)
ModeUpdate(mode) ==
    IF mode = "PROCESSED_HEARTBEAT" THEN UPDATE_HEARTBEAT ELSE {}

\* the loop over canUpdate with its switch(fullId)
RECURSIVE SdoUpdate(_)
SdoUpdate(updated) ==
    IF updated = <<>> THEN {}
    ELSE (IF Head(updated).object \in SDO_UPDATE_CASES
          THEN UPDATE_ID(Head(updated).object) ELSE {})
         \cup SdoUpdate(Tail(updated))

\* process without the return in the PROCESSED_SDO_INITIATE_DOWNLOAD case: the
\* acknowledged object is classified like a changed one
process_AckFallsThrough(cache, factors, parameters, msg) ==
    LET engine == EngineProcess(cache, msg)
        update == ModeUpdate(msg.mode) \cup SdoUpdate(msg.updated)
    IN  IF msg.mode = "PROCESSED_SDO_INITIATE_DOWNLOAD"
        THEN [cache |-> engine, factors |-> factors,
              out |-> [Ack(msg.updated[1].object) EXCEPT !.updated = update]]
        ELSE IF update \cap UPDATE_FACTORS # {}
             THEN LET again == setMotorParameters(engine, factors, parameters)
                  IN  [cache |-> again.cache, factors |-> again.factors,
                       out |-> UpdatedObjects(update)]
             ELSE [cache |-> engine, factors |-> factors,
                   out |-> UpdatedObjects(update)]

\* process that recomputes the Factors on a refresh without applying the stored
\* MotorParameters again
process_WithoutReapply(cache, factors, parameters, msg) ==
    LET engine == EngineProcess(cache, msg)
    IN  IF msg.mode = "PROCESSED_SDO_INITIATE_DOWNLOAD"
        THEN [cache |-> engine, factors |-> factors,
              out |-> Ack(msg.updated[1].object)]
        ELSE LET update == ModeUpdate(msg.mode) \cup SdoUpdate(msg.updated)
             IN  IF update \cap UPDATE_FACTORS # {}
                 THEN [cache |-> engine, factors |-> computeFactors(engine),
                       out |-> UpdatedObjects(update)]
                 ELSE [cache |-> engine, factors |-> factors,
                       out |-> UpdatedObjects(update)]

\* process that derives the Factors on the first refresh only
process_FirstRefreshOnly(cache, factors, parameters, msg) ==
    LET engine == EngineProcess(cache, msg)
    IN  IF msg.mode = "PROCESSED_SDO_INITIATE_DOWNLOAD"
        THEN [cache |-> engine, factors |-> factors,
              out |-> Ack(msg.updated[1].object)]
        ELSE LET update == ModeUpdate(msg.mode) \cup SdoUpdate(msg.updated)
             IN  IF update \cap UPDATE_FACTORS # {} /\ IsNaN(factors.ratedCurrent)
                 THEN LET again == setMotorParameters(engine, factors, parameters)
                      IN  [cache |-> again.cache, factors |-> again.factors,
                           out |-> UpdatedObjects(update)]
                 ELSE [cache |-> engine, factors |-> factors,
                       out |-> UpdatedObjects(update)]

\* process that applies the MotorParameters and recomputes the Factors after
\* every message
process_RefreshAlways(cache, factors, parameters, msg) ==
    LET engine == EngineProcess(cache, msg)
        again == setMotorParameters(engine, factors, parameters)
    IN  IF msg.mode = "PROCESSED_SDO_INITIATE_DOWNLOAD"
        THEN [cache |-> again.cache, factors |-> again.factors,
              out |-> Ack(msg.updated[1].object)]
        ELSE [cache |-> again.cache, factors |-> again.factors,
              out |-> UpdatedObjects(ModeUpdate(msg.mode) \cup SdoUpdate(msg.updated))]

\* Controller::process as a function of the controller's state and the message:
\* the cache and Factors it leaves and the Update it returns
process(cache, factors, parameters, msg) ==
    LET engine == EngineProcess(cache, msg)
    IN  IF msg.mode = "PROCESSED_SDO_INITIATE_DOWNLOAD"
        THEN [cache |-> engine, factors |-> factors,
              out |-> Ack(msg.updated[1].object)]
        ELSE LET update == ModeUpdate(msg.mode) \cup SdoUpdate(msg.updated)
             IN  IF update \cap UPDATE_FACTORS # {}
                 THEN LET again == setMotorParameters(engine, factors, parameters)
                      IN  [cache |-> again.cache, factors |-> again.factors,
                           out |-> UpdatedObjects(update)]
                 ELSE [cache |-> engine, factors |-> factors,
                       out |-> UpdatedObjects(update)]

\* whether the message carries a value of the object
Carries(msg, object) ==
    /\ msg.mode # "PROCESSED_SDO_INITIATE_DOWNLOAD"
    /\ \E i \in 1..Len(msg.updated) : msg.updated[i].object = object

\* whether the message carries the value of a factor object
CarriesFactor(msg) == \E object \in FactorObjects : Carries(msg, object)

\* the objects behind the six ratio fields of Factors and MotorParameters
RatioObjects ==
    {"PositionEncoderResolutionNum", "PositionEncoderResolutionDen",
     "GearRatioNum", "GearRatioDen", "FeedConstantNum", "FeedConstantDen"}

\* the record of drive reports after the message: the last value of each ratio
\* object the message carries
Reported(reported, msg) ==
    [object \in RatioObjects |->
        IF Carries(msg, object)
        THEN LET last == CHOOSE i \in 1..Len(msg.updated) :
                            /\ msg.updated[i].object = object
                            /\ \A j \in (i + 1)..Len(msg.updated) :
                                   msg.updated[j].object # object
             IN  <<msg.updated[last].value>>
        ELSE reported[object]]

\* most process() calls of one run that carry a factor object
MaxFactorReports == 2

Process(msg) ==
    /\ CarriesFactor(msg) => nFactorReports < MaxFactorReports
    /\ LET r == process(mCanOpen, mFactors, mMotorParameters, msg)
       IN  /\ mCanOpen' = r.cache
           /\ mFactors' = r.factors
           /\ ret' = [op |-> "process", msg |-> msg, out |-> r.out]
    /\ nFactorReports' = IF CarriesFactor(msg) THEN nFactorReports + 1
                         ELSE nFactorReports
    /\ ratedTorqueSupplied' = (ratedTorqueSupplied \/ Carries(msg, "MotorRatedTorque"))
    /\ lastReported' = Reported(lastReported, msg)
    /\ UNCHANGED <<mRatedTorque, mZeroPosition, mMotorParameters, pdoVars, cliVars>>

----------------------------------------------------------------------------
(* The setters and getters of the factor and torque part. *)

SetRatedTorque(ratedTorque) ==
    /\ mRatedTorque' = ratedTorque
    /\ ret' = [op |-> "setRatedTorque", arg |-> ratedTorque]
    /\ ratedTorqueSupplied' = TRUE
    /\ UNCHANGED <<mCanOpen, mFactors, mZeroPosition, mMotorParameters, nFactorReports,
                   pdoVars, lastReported, cliVars>>

SetMotorParameters(parameters) ==
    /\ mMotorParameters' = parameters
    /\ LET r == setMotorParameters(mCanOpen, mFactors, parameters)
       IN  /\ mCanOpen' = r.cache
           /\ mFactors' = r.factors
           /\ ret' = [op |-> "setMotorParameters", arg |-> parameters,
                      out |-> IF r.threw THEN "ObjectNotRead" ELSE "void"]
    /\ ratedTorqueSupplied' = (ratedTorqueSupplied \/ ~IsNaN(parameters.torqueConstant))
    /\ UNCHANGED <<mRatedTorque, mZeroPosition, nFactorReports, pdoVars, lastReported, cliVars>>

GetFactors ==
    /\ ret' = [op |-> "getFactors", out |-> mFactors]
    /\ UNCHANGED <<mCanOpen, mRatedTorque, mFactors, mZeroPosition,
                   mMotorParameters, nFactorReports, ratedTorqueSupplied, pdoVars, lastReported, cliVars>>

SetEncoderScaleFactor(scale) ==
    /\ mFactors' = [mFactors EXCEPT !.encoderScaleFactor = scale]
    /\ ret' = [op |-> "setEncoderScaleFactor", arg |-> scale]
    /\ UNCHANGED <<mCanOpen, mRatedTorque, mZeroPosition, mMotorParameters,
                   nFactorReports, ratedTorqueSupplied, pdoVars, lastReported, cliVars>>

\* the bounds of the range check of Controller::setTorqueTarget
TorqueCheckLow == -32767

TorqueCheckHigh == 32768

\* the range of int16_t
Int16Min == -32768

Int16Max == 32767

\* (target / ratedTorque) * 1000
canopen_target(target, ratedTorque) ==
    RMul(RDiv(target, ratedTorque), Int2Dbl(1000))

\* static_cast<int16_t>(x): truncation when the truncated value is an int16_t;
\* otherwise the conversion is undefined: the outcomes are the wrapped low 16
\* bits of the wider conversion, the saturated value, or 0
CastInt16(x) ==
    IF IsFinite(x) /\ Trunc(x) >= Int16Min /\ Trunc(x) <= Int16Max
    THEN {Trunc(x)}
    ELSE IF IsNaN(x) THEN {0}
    ELSE IF x[1] > 0 THEN {Int16Min, Int16Max, 0}
    ELSE {Int16Min, 0}

\* Controller::setTorqueTarget: the outcomes of the call
setTorqueTarget(factors, target) ==
    IF IsNaN(factors.ratedTorque)
    THEN {[kind |-> "logic_error", object |-> "none", value |-> 0]}
    ELSE LET t == canopen_target(target, factors.ratedTorque)
         IN  IF RLess(t, Int2Dbl(TorqueCheckLow)) \/ RLess(Int2Dbl(TorqueCheckHigh), t)
             THEN {[kind |-> "out_of_range", object |-> "none", value |-> 0]}
             ELSE {[kind |-> "download", object |-> "TargetTorque", value |-> v] :
                        v \in CastInt16(t)}

SetTorqueTarget(target) ==
    /\ \E out \in setTorqueTarget(mFactors, target) :
           ret' = [op |-> "setTorqueTarget", arg |-> target, out |-> out]
    /\ UNCHANGED <<mCanOpen, mRatedTorque, mFactors, mZeroPosition,
                   mMotorParameters, nFactorReports, ratedTorqueSupplied, pdoVars, lastReported, cliVars>>

----------------------------------------------------------------------------
(* The conversions of Factors, and the joint state and joint limit getters. *)

\* Factors::rawToEncoder
rawToEncoder(factors, raw) ==
    RMul(RDiv(Int2Dbl(raw * factors.encoderRevolutions
                          * factors.gearDrivingShaftRevolutions * factors.feedLength),
              Int2Dbl(factors.encoderTicks * factors.gearMotorShaftRevolutions
                          * factors.feedDrivingShaftRevolutions)),
         factors.encoderScaleFactor)

\* Factors::rawToCurrent
rawToCurrent(factors, raw) ==
    RDiv(RMul(Int2Dbl(raw), factors.ratedCurrent), Int2Dbl(1000))

\* Factors::rawToTorque, when the rated torque is known (it fails otherwise)
rawToTorque(factors, raw) ==
    RDiv(RMul(Int2Dbl(raw), factors.ratedTorque), Int2Dbl(1000))

\* a default-constructed base::JointState: every field unset
UnsetJointState ==
    [position |-> NaN, speed |-> NaN, effort |-> NaN, raw |-> NaN,
     acceleration |-> NaN]

Throws(what) == [kind |-> what]

\* the position of getJointState
PositionField(cache, factors, zeroPosition) ==
    rawToEncoder(factors, getRaw(cache, "PositionActualInternalValue") - zeroPosition)

\* the speed with the zero position subtracted as well
SpeedField_MinusZero(cache, factors, zeroPosition) ==
    rawToEncoder(factors, getRaw(cache, "VelocityActualValue") - zeroPosition)

\* the speed of getJointState
SpeedField(cache, factors, zeroPosition) ==
    rawToEncoder(factors, getRaw(cache, "VelocityActualValue"))

\* the current (state.raw) of getJointState
CurrentField(cache, factors) ==
    rawToCurrent(factors, getRaw(cache, "CurrentActualValue"))

\* the effort scaled with the current factor
EffortField_AsCurrent(cache, factors) ==
    rawToCurrent(factors, getRaw(cache, "CurrentActualValue"))

\* the effort of getJointState
EffortField(cache, factors) ==
    rawToTorque(factors, getRaw(cache, "CurrentActualValue"))

\* Controller::getJointState: the reads happen in the order position, velocity,
\* current, and the first one of an object that was never read throws
getJointState(cache, factors, zeroPosition, fields) ==
    LET wantPosition == fields \cap UPDATE_JOINT_POSITION # {}
        wantVelocity == fields \cap UPDATE_JOINT_VELOCITY # {}
        wantCurrent == fields \cap UPDATE_JOINT_CURRENT # {}
    IN  IF wantPosition /\ ~has(cache, "PositionActualInternalValue")
        THEN Throws("ObjectNotRead")
        ELSE IF wantVelocity /\ ~has(cache, "VelocityActualValue")
        THEN Throws("ObjectNotRead")
        ELSE IF wantCurrent /\ ~has(cache, "CurrentActualValue")
        THEN Throws("ObjectNotRead")
        ELSE IF wantCurrent /\ IsNaN(factors.ratedTorque)
        THEN Throws("PreconditionNotMet")
        ELSE [kind |-> "ok",
              state |->
                [UnsetJointState EXCEPT
                   !.position = IF wantPosition
                                THEN PositionField(cache, factors, zeroPosition) ELSE @,
                   !.speed = IF wantVelocity
                             THEN SpeedField(cache, factors, zeroPosition) ELSE @,
                   !.raw = IF wantCurrent THEN CurrentField(cache, factors) ELSE @,
                   !.effort = IF wantCurrent THEN EffortField(cache, factors) ELSE @]]

\* the objects Controller::getJointLimits reads
JointLimitsObjects ==
    {"SoftwarePositionLimitMin", "SoftwarePositionLimitMax", "MaxMotorSpeed",
     "MaxCurrent"}

\* the position part of getJointLimits: <<min, max>>
PositionLimits(cache, factors) ==
    LET rawPositionMin == getRaw(cache, "SoftwarePositionLimitMin")
        rawPositionMax == getRaw(cache, "SoftwarePositionLimitMax")
    IN  IF rawPositionMin = rawPositionMax /\ rawPositionMin = 0
        THEN <<MinusInfinity, PlusInfinity>>
        ELSE <<rawToEncoder(factors, rawPositionMin),
               rawToEncoder(factors, rawPositionMax)>>

\* the speed part that takes a zero limit for "no limit" as well
SpeedLimits_ZeroUnlimited(cache, factors) ==
    LET rawMaxSpeed == getRaw(cache, "MaxMotorSpeed")
    IN  IF rawMaxSpeed <= 0
        THEN <<MinusInfinity, PlusInfinity>>
        ELSE <<RNeg(rawToEncoder(factors, rawMaxSpeed)),
               rawToEncoder(factors, rawMaxSpeed)>>

\* the speed part of getJointLimits: <<min, max>>
SpeedLimits(cache, factors) ==
    LET rawMaxSpeed == getRaw(cache, "MaxMotorSpeed")
    IN  IF rawMaxSpeed < 0
        THEN <<MinusInfinity, PlusInfinity>>
        ELSE <<RNeg(rawToEncoder(factors, rawMaxSpeed)),
               rawToEncoder(factors, rawMaxSpeed)>>

\* Controller::getJointLimits
getJointLimits(cache, factors) ==
    IF \E object \in JointLimitsObjects : ~has(cache, object)
    THEN Throws("ObjectNotRead")
    ELSE IF IsNaN(factors.ratedTorque)
    THEN Throws("PreconditionNotMet")
    ELSE LET position == PositionLimits(cache, factors)
             speed == SpeedLimits(cache, factors)
             torqueAndCurrentLimit == getRaw(cache, "MaxCurrent")
             torqueLimit == rawToTorque(factors, torqueAndCurrentLimit)
             currentLimit == rawToCurrent(factors, torqueAndCurrentLimit)
         IN  [kind |-> "ok",
              min |-> [position |-> position[1], speed |-> speed[1],
                       acceleration |-> MinusInfinity,
                       effort |-> RNeg(torqueLimit), raw |-> RNeg(currentLimit)],
              max |-> [position |-> position[2], speed |-> speed[2],
                       acceleration |-> PlusInfinity,
                       effort |-> torqueLimit, raw |-> currentLimit]]

SetZeroPosition(base) ==
    /\ mZeroPosition' = base
    /\ ret' = [op |-> "setZeroPosition", arg |-> base]
    /\ UNCHANGED <<mCanOpen, mRatedTorque, mFactors, mMotorParameters,
                   nFactorReports, ratedTorqueSupplied, pdoVars, lastReported, cliVars>>

GetJointState(fields) ==
    /\ ret' = [op |-> "getJointState", arg |-> fields,
               out |-> getJointState(mCanOpen, mFactors, mZeroPosition, fields)]
    /\ UNCHANGED <<mCanOpen, mRatedTorque, mFactors, mZeroPosition,
                   mMotorParameters, nFactorReports, ratedTorqueSupplied, pdoVars, lastReported, cliVars>>

GetJointLimits ==
    /\ ret' = [op |-> "getJointLimits", out |-> getJointLimits(mCanOpen, mFactors)]
    /\ UNCHANGED <<mCanOpen, mRatedTorque, mFactors, mZeroPosition,
                   mMotorParameters, nFactorReports, ratedTorqueSupplied, pdoVars, lastReported, cliVars>>

----------------------------------------------------------------------------
(* The PDO configuration builders. *)

\* largest PDO index used
MaxPdoIndex == 1

PdoIndices == 0..(MaxPdoIndex + 1)

\* StateMachine::configurePDO: the messages that set up one PDO of the drive
\* with the communication parameters and the mapping
configurePDO(transmit, pdoIndex, parameters, mapping) ==
    <<[kind |-> "PDO_COMMUNICATION", transmit |-> transmit, pdoIndex |-> pdoIndex,
       parameters |-> parameters],
      [kind |-> "PDO_MAPPING", transmit |-> transmit, pdoIndex |-> pdoIndex,
       mapping |-> mapping]>>

\* StateMachine::disablePDO: the message that disables one PDO of the drive
disablePDO(transmit, pdoIndex) ==
    [kind |-> "PDO_DISABLE", transmit |-> transmit, pdoIndex |-> pdoIndex]

\* the values of base::JointState::MODE
JointStateModes == {"POSITION", "SPEED", "EFFORT", "RAW", "ACCELERATION", "UNSET"}

\* the switch with the SPEED case adding the position target
ControlMapping_SpeedAsPosition(control_mode) ==
    IF control_mode = "POSITION" THEN <<"TargetPosition">>
    ELSE IF control_mode = "SPEED" THEN <<"TargetPosition">>
    ELSE IF control_mode = "EFFORT" THEN <<"TargetTorque">>
    ELSE <<>>

\* the switch(control_mode) of configureControlPDO: the mapping it builds, empty
\* in the default case
ControlMapping(control_mode) ==
    IF control_mode = "POSITION" THEN <<"TargetPosition">>
    ELSE IF control_mode = "SPEED" THEN <<"TargetVelocity">>
    ELSE IF control_mode = "EFFORT" THEN <<"TargetTorque">>
    ELSE <<>>

\* Controller::configureControlPDO: what it returns and the receive mappings it
\* leaves declared
configureControlPDO(rpdo, pdoIndex, control_mode, parameters) ==
    IF control_mode \notin {"POSITION", "SPEED", "EFFORT"}
    THEN [out |-> [kind |-> "invalid_argument", messages |-> <<>>], rpdo |-> rpdo]
    ELSE LET mapping == ControlMapping(control_mode)
         IN  [out |-> [kind |-> "ok",
                       messages |-> configurePDO(FALSE, pdoIndex, parameters, mapping)],
              rpdo |-> [rpdo EXCEPT ![pdoIndex] = mapping]]

ConfigureControlPDO(pdoIndex, control_mode, parameters) ==
    /\ LET r == configureControlPDO(mRPDOMappings, pdoIndex, control_mode, parameters)
       IN  /\ mRPDOMappings' = r.rpdo
           /\ ret' = [op |-> "configureControlPDO",
                      arg |-> [pdoIndex |-> pdoIndex, control_mode |-> control_mode,
                               parameters |-> parameters],
                      out |-> r.out]
    /\ UNCHANGED <<mCanOpen, mRatedTorque, mFactors, mZeroPosition, mMotorParameters,
                   nFactorReports, ratedTorqueSupplied, mTPDOMappings, lastReported, cliVars>>

\* the mapping with the object appended when the bit is in the field mask
AddIf(mapping, fields, bit, object) ==
    IF fields \cap bit # {} THEN Append(mapping, object) ELSE mapping

\* the else branch of configureJointStateUpdatePDOs: every requested object in
\* mapping0
PackedMapping(fields) ==
    AddIf(AddIf(AddIf(<<>>, fields, UPDATE_JOINT_POSITION, "PositionActualInternalValue"),
                fields, UPDATE_JOINT_VELOCITY, "VelocityActualValue"),
          fields, UPDATE_JOINT_CURRENT, "CurrentActualValue")

\* the two mappings configureJointStateUpdatePDOs builds: <<mapping0, mapping1>>
JointStateMappings(fields) ==
    IF fields = UPDATE_JOINT_STATE
    THEN <<(<<"PositionActualInternalValue", "VelocityActualValue">>),
           (<<"CurrentActualValue">>)>>
    ELSE <<PackedMapping(fields), <<>>>>

\* one slot configured without the test for an empty mapping
SlotMessages_NoDisable(pdoIndex, parameters, mapping) ==
    configurePDO(TRUE, pdoIndex, parameters, mapping)

\* the messages of one slot: a disable message for an empty mapping, the
\* configuration otherwise
SlotMessages(pdoIndex, parameters, mapping) ==
    IF mapping = <<>> THEN <<disablePDO(TRUE, pdoIndex)>>
    ELSE configurePDO(TRUE, pdoIndex, parameters, mapping)

\* the transmit mappings after one slot: declared for a non-empty mapping
SlotDeclared(tpdo, pdoIndex, mapping) ==
    IF mapping = <<>> THEN tpdo ELSE [tpdo EXCEPT ![pdoIndex] = mapping]

\* Controller::configureJointStateUpdatePDOs: the messages it returns and the
\* transmit mappings it leaves declared
configureJointStateUpdatePDOs(tpdo, pdoIndex, parameters, fields) ==
    LET mappings == JointStateMappings(fields)
    IN  [messages |-> SlotMessages(pdoIndex, parameters, mappings[1])
                        \o SlotMessages(pdoIndex + 1, parameters, mappings[2]),
         tpdo |-> SlotDeclared(SlotDeclared(tpdo, pdoIndex, mappings[1]),
                               pdoIndex + 1, mappings[2])]

ConfigureJointStateUpdatePDOs(pdoIndex, parameters, fields) ==
    /\ LET r == configureJointStateUpdatePDOs(mTPDOMappings, pdoIndex, parameters, fields)
       IN  /\ mTPDOMappings' = r.tpdo
           /\ ret' = [op |-> "configureJointStateUpdatePDOs",
                      arg |-> [pdoIndex |-> pdoIndex, parameters |-> parameters,
                               fields |-> fields],
                      out |-> [kind |-> "ok", messages |-> r.messages]]
    /\ UNCHANGED <<mCanOpen, mRatedTorque, mFactors, mZeroPosition, mMotorParameters,
                   nFactorReports, ratedTorqueSupplied, mRPDOMappings, lastReported, cliVars>>

----------------------------------------------------------------------------
(* Controller::setControlTargets. *)

\* Factors::rawFromEncoder: the inverse of rawToEncoder, converted to int64_t
rawFromEncoder(factors, encoder) ==
    Trunc(RMul(RDiv(encoder, factors.encoderScaleFactor),
               RDiv(Int2Dbl(factors.encoderTicks * factors.gearMotorShaftRevolutions
                               * factors.feedDrivingShaftRevolutions),
                    Int2Dbl(factors.encoderRevolutions
                               * factors.gearDrivingShaftRevolutions
                               * factors.feedLength))))

\* Factors::rawFromTorque: the inverse of rawToTorque; it fails when the rated
\* torque is unknown and when the raw value does not fit the 16 bit torque target
rawFromTorque(factors, torque) ==
    IF IsNaN(factors.ratedTorque) THEN Throws("PreconditionNotMet")
    ELSE LET raw == canopen_target(torque, factors.ratedTorque)
         IN  IF IsFinite(raw) /\ Trunc(raw) >= Int16Min /\ Trunc(raw) <= Int16Max
             THEN [kind |-> "ok", raw |-> Trunc(raw)]
             ELSE Throws("out_of_range")

\* base::JointState::hasPosition, hasSpeed, hasEffort: the field is not unset
hasField(targets, field) == ~IsNaN(targets[field])

\* the position and speed blocks of setControlTargets
StageEncoder(cache, factors, targets, field, object) ==
    IF hasField(targets, field)
    THEN setRaw(cache, object, rawFromEncoder(factors, targets[field]))
    ELSE cache

\* setControlTargets as an else-if chain: only the first present field is staged
setControlTargets_FirstOnly(cache, factors, targets) ==
    IF hasField(targets, "position")
    THEN [cache |-> StageEncoder(cache, factors, targets, "position", "TargetPosition"),
          kind |-> "ok"]
    ELSE IF hasField(targets, "speed")
    THEN [cache |-> StageEncoder(cache, factors, targets, "speed", "TargetVelocity"),
          kind |-> "ok"]
    ELSE IF hasField(targets, "effort")
    THEN LET raw == rawFromTorque(factors, targets.effort)
         IN  IF raw.kind = "ok"
             THEN [cache |-> setRaw(cache, "TargetTorque", raw.raw), kind |-> "ok"]
             ELSE [cache |-> cache, kind |-> raw.kind]
    ELSE [cache |-> cache, kind |-> "ok"]

\* Controller::setControlTargets: the cache it leaves, and whether it returned
\* or which conversion failure ended it
setControlTargets(cache, factors, targets) ==
    LET c1 == StageEncoder(cache, factors, targets, "position", "TargetPosition")
        c2 == StageEncoder(c1, factors, targets, "speed", "TargetVelocity")
    IN  IF hasField(targets, "effort")
        THEN LET raw == rawFromTorque(factors, targets.effort)
             IN  IF raw.kind = "ok"
                 THEN [cache |-> setRaw(c2, "TargetTorque", raw.raw), kind |-> "ok"]
                 ELSE [cache |-> c2, kind |-> raw.kind]
        ELSE [cache |-> c2, kind |-> "ok"]

SetControlTargets(targets) ==
    /\ LET r == setControlTargets(mCanOpen, mFactors, targets)
       IN  /\ mCanOpen' = r.cache
           /\ ret' = [op |-> "setControlTargets", arg |-> targets,
                      out |-> [kind |-> r.kind, messages |-> <<>>]]
    /\ UNCHANGED <<mRatedTorque, mFactors, mZeroPosition, mMotorParameters,
                   nFactorReports, ratedTorqueSupplied, pdoVars, lastReported, cliVars>>

\* a caller commands the position it reads: setControlTargets on the position
\* of getJointState(UPDATE_JOINT_POSITION), the other fields unset
CommandReportedPosition ==
    /\ has(mCanOpen, "PositionActualInternalValue")
    /\ LET reported == getJointState(mCanOpen, mFactors, mZeroPosition,
                                     UPDATE_JOINT_POSITION).state
           r == setControlTargets(mCanOpen, mFactors, reported)
       IN  /\ mCanOpen' = r.cache
           /\ ret' = [op |-> "setControlTargets", arg |-> reported,
                      out |-> [kind |-> r.kind, messages |-> <<>>]]
    /\ UNCHANGED <<mRatedTorque, mFactors, mZeroPosition, mMotorParameters,
                   nFactorReports, ratedTorqueSupplied, pdoVars, lastReported, cliVars>>

----------------------------------------------------------------------------
(* The controller after construction. *)

\* the constructor without its last setRaw
ConstructorObjects_WithoutRatedTorque ==
    {"PositionEncoderResolutionNum", "PositionEncoderResolutionDen",
     "GearRatioNum", "GearRatioDen", "FeedConstantNum", "FeedConstantDen",
     "MotorRatedCurrent"}

\* the objects the constructor seeds with setRaw<T>(1)
ConstructorObjects ==
    {"PositionEncoderResolutionNum", "PositionEncoderResolutionDen",
     "GearRatioNum", "GearRatioDen", "FeedConstantNum", "FeedConstantDen",
     "MotorRatedCurrent", "MotorRatedTorque"}

Init ==
    /\ mCanOpen = [object \in Objects |->
                      IF object \in ConstructorObjects THEN <<1>> ELSE NotRead]
    /\ mRatedTorque = NaN
    /\ mFactors = DefaultFactors
    /\ mZeroPosition = 0
    /\ mMotorParameters = DefaultMotorParameters
    /\ nFactorReports = 0
    /\ ratedTorqueSupplied = FALSE
    /\ mRPDOMappings = [pdoIndex \in PdoIndices |-> <<>>]
    /\ mTPDOMappings = [pdoIndex \in PdoIndices |-> <<>>]
    /\ lastReported = [object \in RatioObjects |-> <<>>]
    /\ ret = [op |-> "Controller"]
    /\ cmd = "none"
    /\ pc = "main"
    /\ call = [fn |-> "none", todo |-> <<>>, updateId |-> {}, written |-> FALSE]
    /\ interrupted = FALSE
    /\ cycleState = UpdatedObjects({})
    /\ target_torque = NaN
    /\ cycles = 0
    /\ toDrive = <<>>
    /\ bus = <<>>
    /\ drive = [nmt |-> "PRE_OPERATIONAL",
                tpdo |-> [pdoIndex \in PdoIndices |-> <<>>],
                heartbeats |-> 0, sent |-> <<>>]
    /\ trace = <<>>

----------------------------------------------------------------------------
(* The inputs of the factor and torque part. *)

\* largest value the drive reports for PositionEncoderResolutionNum
MaxDriveTicks == 3

Upload(object, value) ==
    [mode |-> "PROCESSED_SDO_INITIATE_UPLOAD",
     updated |-> <<[object |-> object, value |-> value]>>]

DownloadAck(object) ==
    [mode |-> "PROCESSED_SDO_INITIATE_DOWNLOAD",
     updated |-> <<[object |-> object, value |-> 0]>>]

Heartbeat == [mode |-> "PROCESSED_HEARTBEAT", updated |-> <<>>]

FactorMessages ==
    {Upload("PositionEncoderResolutionNum", v) : v \in 2..MaxDriveTicks}
    \cup {Upload(object, 2) :
            object \in {"PositionEncoderResolutionDen", "GearRatioNum", "GearRatioDen",
                        "FeedConstantNum", "FeedConstantDen"}}
    \cup {Upload("MotorRatedCurrent", 2000), Upload("MotorRatedTorque", 1000),
          Upload("VelocityFactorNum", 1)}

AckMessages == {DownloadAck("TargetTorque"), DownloadAck("GearRatioDen")}

\* MotorParameters the application supplies
AllRatios ==
    [encoderTicks |-> 11, encoderRevolutions |-> 12,
     gearMotorShaftRevolutions |-> 13, gearDrivingShaftRevolutions |-> 14,
     feedLength |-> 15, feedDrivingShaftRevolutions |-> 16,
     torqueConstant |-> NaN]

TicksAndTorqueConstant ==
    [DefaultMotorParameters EXCEPT !.encoderTicks = 7, !.torqueConstant = Rat(3, 2)]

MotorParameterChoices == {DefaultMotorParameters, AllRatios, TicksAndTorqueConstant}

TorqueTargets ==
    {Int2Dbl(0), Rat(1, 2), Rat(32767, 1000), Rat(32768, 1000), Rat(32769, 1000),
     Rat(-32767, 1000), Rat(-32768, 1000), Rat(-32769, 1000),
     Int2Dbl(40000), Int2Dbl(-40000)}

Next ==
    \/ \E msg \in FactorMessages \cup AckMessages \cup {Heartbeat} : Process(msg)
    \/ \E p \in MotorParameterChoices : SetMotorParameters(p)
    \/ SetRatedTorque(Int2Dbl(1))
    \/ SetEncoderScaleFactor(Int2Dbl(2))
    \/ \E target \in TorqueTargets : SetTorqueTarget(target)
    \/ GetFactors

Spec == Init /\ [][Next]_vars

----------------------------------------------------------------------------
(* The classifier part: process() on messages of every kind. *)

Pdo(entries) == [mode |-> "PROCESSED_PDO", updated |-> entries]

ClassifierMessages ==
    {Heartbeat,
     Upload("StatusWord", 1), Upload("ModesOfOperation", 1),
     Upload("GearRatioNum", 2), Upload("VelocityFactorDen", 1),
     Upload("PositionActualInternalValue", 5),
     Pdo(<<[object |-> "PositionActualInternalValue", value |-> 5],
           [object |-> "VelocityActualValue", value |-> 1]>>),
     Pdo(<<[object |-> "CurrentActualValue", value |-> 500]>>),
     Pdo(<<[object |-> "StatusWord", value |-> 1],
           [object |-> "CurrentActualValue", value |-> 500]>>),
     Upload("MaxCurrent", 1500),
     Upload("CANControllerStatus", 0), Upload("StoreParameters", 0),
     Pdo(<<[object |-> "StoreParameters", value |-> 0],
           [object |-> "MaxDeceleration", value |-> 1]>>)}

NextClassifier ==
    \/ \E msg \in ClassifierMessages \cup AckMessages : Process(msg)
    \/ SetMotorParameters(AllRatios)

SpecClassifier == Init /\ [][NextClassifier]_vars

----------------------------------------------------------------------------
(* The joint limit part. *)

RatedMessages == {Upload("MotorRatedCurrent", 2000), Upload("MotorRatedTorque", 1000)}

LimitMessages ==
    {Upload("SoftwarePositionLimitMin", v) : v \in {0, -100}}
    \cup {Upload("SoftwarePositionLimitMax", v) : v \in {0, 100}}
    \cup {Upload("MaxMotorSpeed", v) : v \in {-1, 0, 50}}
    \cup {Upload("MaxCurrent", 1500)}

NextLimits ==
    \/ \E msg \in LimitMessages \cup RatedMessages \cup {Upload("GearRatioNum", 2)} :
          Process(msg)
    \/ SetMotorParameters(TicksAndTorqueConstant)
    \/ GetJointLimits

SpecLimits == Init /\ [][NextLimits]_vars

----------------------------------------------------------------------------
(* The joint state part. *)

StateMessages ==
    {Upload("PositionActualInternalValue", v) : v \in {5, -3}}
    \cup {Upload("VelocityActualValue", 4), Upload("CurrentActualValue", 500)}

\* field masks: every combination of the three joint state bits, and masks with
\* bits of other groups
FieldMasks ==
    (SUBSET UPDATE_JOINT_STATE)
    \cup {UPDATE_FACTORS, UPDATE_JOINT_STATE \cup UPDATE_HEARTBEAT}

ZeroPositions == {0, 2}

NextState ==
    \/ \E msg \in StateMessages \cup RatedMessages \cup {Upload("GearRatioNum", 2)} :
          Process(msg)
    \/ SetMotorParameters(TicksAndTorqueConstant)
    \/ \E base \in ZeroPositions : SetZeroPosition(base)
    \/ \E fields \in FieldMasks : GetJointState(fields)

SpecState == Init /\ [][NextState]_vars

----------------------------------------------------------------------------
(* Joint state and joint limits together, on the current and torque objects. *)

CurrentMessages ==
    {Upload("CurrentActualValue", v) : v \in {500, -250}}
    \cup {Upload("MaxCurrent", 1500), Upload("SoftwarePositionLimitMin", 0),
          Upload("SoftwarePositionLimitMax", 0), Upload("MaxMotorSpeed", -1)}

NextJoint ==
    \/ \E msg \in CurrentMessages \cup RatedMessages : Process(msg)
    \/ SetMotorParameters(TicksAndTorqueConstant)
    \/ \E fields \in {UPDATE_JOINT_CURRENT, UPDATE_JOINT_STATE} : GetJointState(fields)
    \/ GetJointLimits

SpecJoint == Init /\ [][NextJoint]_vars

----------------------------------------------------------------------------
(* The PDO configuration part. *)

CommunicationParameters == {"Async", "Sync1"}

NextControl ==
    \/ \E pdoIndex \in 0..MaxPdoIndex, control_mode \in JointStateModes,
          parameters \in CommunicationParameters :
          ConfigureControlPDO(pdoIndex, control_mode, parameters)

SpecControl == Init /\ [][NextControl]_vars

NextPdo ==
    \/ \E pdoIndex \in 0..MaxPdoIndex, fields \in FieldMasks :
          ConfigureJointStateUpdatePDOs(pdoIndex, "Sync1", fields)
    \/ ConfigureControlPDO(0, "SPEED", "Async")

SpecPdo == Init /\ [][NextPdo]_vars

----------------------------------------------------------------------------
(* The control target part. *)

\* setpoints: every combination of a present or unset position, speed and
\* effort, and an effort beyond the 16 bit range
ControlTargets ==
    {[UnsetJointState EXCEPT !.position = position, !.speed = speed, !.effort = effort] :
        position \in {NaN, Rat(3, 2)}, speed \in {NaN, Int2Dbl(-2)},
        effort \in {NaN, Rat(1, 2), Int2Dbl(40)}}

NextTargets ==
    \/ \E msg \in {Upload("MotorRatedTorque", 1000), Upload("GearRatioNum", 3)} :
          Process(msg)
    \/ SetMotorParameters(TicksAndTorqueConstant)
    \/ SetEncoderScaleFactor(Int2Dbl(2))
    \/ \E base \in ZeroPositions : SetZeroPosition(base)
    \/ \E targets \in ControlTargets : SetControlTargets(targets)

SpecTargets == Init /\ [][NextTargets]_vars

----------------------------------------------------------------------------
(* The rated torque part: drive reports of the rated current and the rated
   torque, with and without a torqueConstant. *)

TorqueMessages ==
    {Upload("MotorRatedCurrent", c) : c \in {2000, 3}}
    \cup {Upload("MotorRatedTorque", 1000), Upload("GearRatioNum", 2),
          Upload("StatusWord", 1)}

NextTorque ==
    \/ \E msg \in TorqueMessages : Process(msg)
    \/ \E p \in {DefaultMotorParameters, TicksAndTorqueConstant} : SetMotorParameters(p)
    \/ GetFactors

SpecTorque == Init /\ [][NextTorque]_vars

----------------------------------------------------------------------------
(* The frame part: messages of every kind between the setters. *)

FrameMessages ==
    {Heartbeat, DownloadAck("GearRatioDen"), DownloadAck("MotorRatedTorque"),
     Upload("StatusWord", 1), Upload("PositionActualInternalValue", 5),
     Pdo(<<[object |-> "PositionActualInternalValue", value |-> 5],
           [object |-> "VelocityActualValue", value |-> 1]>>),
     Upload("MaxCurrent", 1500),
     Upload("GearRatioNum", 2), Upload("MotorRatedTorque", 1000)}

NextFrame ==
    \/ \E msg \in FrameMessages : Process(msg)
    \/ \E p \in {AllRatios, TicksAndTorqueConstant} : SetMotorParameters(p)
    \/ \E base \in ZeroPositions : SetZeroPosition(base)
    \/ SetEncoderScaleFactor(Int2Dbl(2))

SpecFrame == Init /\ [][NextFrame]_vars

----------------------------------------------------------------------------
(* Main.cpp: the messages main() builds with the controller. *)

\* StateMachine::upload, the request Controller::queryObject<T> returns
upload(object) == [kind |-> "upload", object |-> object, value |-> 0]

\* StateMachine::download
download(object, value) == [kind |-> "download", object |-> object, value |-> value]

\* queryFactors without the request for the rated torque
queryFactors_WithoutRatedTorque ==
    <<upload("PositionEncoderResolutionNum"), upload("PositionEncoderResolutionDen"),
      upload("GearRatioNum"), upload("GearRatioDen"),
      upload("FeedConstantNum"), upload("FeedConstantDen"),
      upload("VelocityFactorNum"), upload("VelocityFactorDen"),
      upload("MotorRatedCurrent")>>

queryFactors ==
    <<upload("PositionEncoderResolutionNum"), upload("PositionEncoderResolutionDen"),
      upload("GearRatioNum"), upload("GearRatioDen"),
      upload("FeedConstantNum"), upload("FeedConstantDen"),
      upload("VelocityFactorNum"), upload("VelocityFactorDen"),
      upload("MotorRatedCurrent"), upload("MotorRatedTorque")>>

\* queryJointState without the request for the current
queryJointState_WithoutCurrent ==
    <<upload("PositionActualInternalValue"), upload("VelocityActualValue")>>

queryJointState ==
    <<upload("PositionActualInternalValue"), upload("VelocityActualValue"),
      upload("CurrentActualValue")>>

queryJointLimits ==
    <<upload("SoftwarePositionLimitMin"), upload("SoftwarePositionLimitMax"),
      upload("MaxMotorSpeed"), upload("MaxAcceleration"),
      upload("MaxDeceleration"), upload("MaxCurrent")>>

queryStatusWord == upload("StatusWord")

queryOperationMode == upload("ModesOfOperation")

setOperationMode(mode) == download("ModesOfOperation", mode)

\* Controller::send(ControlWord(transition, true))
send(transition) == download("ControlWord", transition)

querySync == [kind |-> "sync"]

queryNodeStateTransition(transition) == [kind |-> "nmt", transition |-> transition]

\* Controller::queryPeriodicJointStateUpdate(pdoIndex, 1): the joint state PDOs
\* sent on every SYNC
queryPeriodicJointStateUpdate(tpdo, pdoIndex) ==
    configureJointStateUpdatePDOs(tpdo, pdoIndex, "Sync1", UPDATE_JOINT_STATE)

----------------------------------------------------------------------------
(* The drive at the other end of the bus. *)

\* most heartbeats the drive sends in one run
MaxHeartbeats == 1

\* the raw positions the drive reports
DrivePositions == {-3, 4}

\* the values the drive holds for an object
DriveValues(object) ==
    IF object = "PositionActualInternalValue" THEN DrivePositions
    ELSE IF object = "VelocityActualValue" THEN {-6}
    ELSE IF object = "CurrentActualValue" THEN {500}
    ELSE IF object = "PositionEncoderResolutionNum" THEN {2}
    ELSE IF object = "MotorRatedTorque" THEN {1000}
    ELSE IF object = "MotorRatedCurrent" THEN {2000}
    ELSE IF object \in {"SoftwarePositionLimitMin"} THEN {-8}
    ELSE IF object \in {"SoftwarePositionLimitMax", "MaxMotorSpeed"} THEN {8}
    ELSE IF object = "MaxCurrent" THEN {1500}
    ELSE {1}

\* the frames of one transmit PDO: one value of the drive for each mapped object
RECURSIVE PdoEntries(_)
PdoEntries(mapping) ==
    IF mapping = <<>> THEN {<<>>}
    ELSE {<<[object |-> Head(mapping), value |-> v]>> \o rest :
              v \in DriveValues(Head(mapping)), rest \in PdoEntries(Tail(mapping))}

\* what the drive sends on a SYNC: one frame for each transmit PDO that is
\* configured, lowest index first
RECURSIVE SyncFrames(_, _)
SyncFrames(tpdo, pdoIndex) ==
    IF pdoIndex \notin DOMAIN tpdo THEN {<<>>}
    ELSE IF tpdo[pdoIndex] = <<>> THEN SyncFrames(tpdo, pdoIndex + 1)
    ELSE {<<Pdo(entries)>> \o rest :
              entries \in PdoEntries(tpdo[pdoIndex]),
              rest \in SyncFrames(tpdo, pdoIndex + 1)}

\* the frames the drive sends for a message written to it: the value for an
\* upload, the acknowledgment for a download, nothing for an NMT command, and
\* its synchronous PDOs for a SYNC when it is operational
DriveReplies(d, msg) ==
    IF msg.kind = "upload"
    THEN {<<Upload(msg.object, v)>> : v \in DriveValues(msg.object)}
    ELSE IF msg.kind = "download" THEN {<<DownloadAck(msg.object)>>}
    ELSE IF msg.kind \in {"PDO_COMMUNICATION", "PDO_DISABLE"}
    THEN {<<DownloadAck("PDOCommunicationParameters")>>}
    ELSE IF msg.kind = "PDO_MAPPING" THEN {<<DownloadAck("PDOMapping")>>}
    ELSE IF msg.kind = "sync" /\ d.nmt = "OPERATIONAL" THEN SyncFrames(d.tpdo, 0)
    ELSE {<<>>}

\* the drive after the message: its NMT state and its transmit PDOs
DriveAfter(d, msg) ==
    IF msg.kind = "nmt"
    THEN [d EXCEPT !.nmt = IF msg.transition = "NODE_START" THEN "OPERATIONAL"
                           ELSE "PRE_OPERATIONAL"]
    ELSE IF msg.kind = "PDO_MAPPING" /\ msg.transmit
    THEN [d EXCEPT !.tpdo[msg.pdoIndex] = msg.mapping]
    ELSE IF msg.kind = "PDO_DISABLE" /\ msg.transmit
    THEN [d EXCEPT !.tpdo[msg.pdoIndex] = <<>>]
    ELSE d

\* the controller's variables
ctlVars == <<mCanOpen, mRatedTorque, mFactors, mZeroPosition, mMotorParameters,
             nFactorReports, ratedTorqueSupplied, pdoVars, lastReported, ret>>

\* the variables of main()
mainVars == <<cmd, pc, call, interrupted, cycleState, target_torque, cycles, trace>>

\* the drive handles the oldest message written to it
DriveHandle ==
    /\ toDrive # <<>>
    /\ toDrive' = Tail(toDrive)
    /\ \E frames \in DriveReplies(drive, Head(toDrive)) :
          /\ bus' = bus \o frames
          /\ drive' = [DriveAfter(drive, Head(toDrive)) EXCEPT !.sent = @ \o frames]
    /\ UNCHANGED <<ctlVars, mainVars>>

\* main() has returned, or an exception has ended it
Terminated ==
    \/ pc = "done" /\ call.fn = "none"
    \/ pc = "aborted"

\* the drive sends a heartbeat on its own
DriveHeartbeat ==
    /\ cmd # "none"
    /\ ~Terminated
    /\ drive.heartbeats < MaxHeartbeats
    /\ drive' = [drive EXCEPT !.heartbeats = @ + 1, !.sent = Append(@, Heartbeat)]
    /\ bus' = Append(bus, Heartbeat)
    /\ UNCHANGED <<ctlVars, mainVars, toDrive>>

----------------------------------------------------------------------------
(* Main.cpp: writeObject, writeObjects, queryObject, queryObjects. *)

NoCall == [fn |-> "none", todo |-> <<>>, updateId |-> {}, written |-> FALSE]

\* the read loop ended by any message
Replied_ByAnyMessage(fn, out, updateId) == TRUE

\* the test that ends the read loop: isAck() in writeObject, hasOneUpdated(updateId)
\* in queryObject
Replied(fn, out, updateId) ==
    IF fn = "writeObject" THEN isAck(out) ELSE hasOneUpdated(out, updateId)

\* controller.process(msg) on a message main() has read
Feed(msg) ==
    /\ LET r == process(mCanOpen, mFactors, mMotorParameters, msg)
       IN  /\ mCanOpen' = r.cache
           /\ mFactors' = r.factors
           /\ ret' = [op |-> "process", msg |-> msg, out |-> r.out]
    /\ nFactorReports' = IF CarriesFactor(msg) THEN nFactorReports + 1
                         ELSE nFactorReports
    /\ ratedTorqueSupplied' = (ratedTorqueSupplied \/ Carries(msg, "MotorRatedTorque"))
    /\ lastReported' = Reported(lastReported, msg)
    /\ UNCHANGED <<mRatedTorque, mZeroPosition, mMotorParameters, pdoVars>>

\* the Update process() returns for the message
Fed(msg) == process(mCanOpen, mFactors, mMotorParameters, msg).out

\* writeObject and queryObject: device.write(query)
CallWrite ==
    /\ call.fn # "none"
    /\ ~call.written
    /\ toDrive' = Append(toDrive, Head(call.todo))
    /\ call' = [call EXCEPT !.written = TRUE]
    /\ trace' = Append(trace, [ev |-> "write", fn |-> call.fn, msg |-> Head(call.todo),
                               updateId |-> call.updateId])
    /\ UNCHANGED <<ctlVars, cmd, pc, interrupted, cycleState, target_torque, cycles,
                   bus, drive>>

\* writeObject and queryObject: one turn of the read loop; the function returns
\* when the test holds, and writeObjects and queryObjects go on to the next message
CallRead ==
    /\ call.fn # "none"
    /\ call.written
    /\ bus # <<>>
    /\ Feed(Head(bus))
    /\ bus' = Tail(bus)
    /\ call' = IF Replied(call.fn, Fed(Head(bus)), call.updateId)
               THEN IF Len(call.todo) = 1 THEN NoCall
                    ELSE [call EXCEPT !.todo = Tail(@), !.written = FALSE]
               ELSE call
    /\ trace' = Append(trace, [ev |-> "process", fn |-> call.fn, msg |-> Head(bus),
                               out |-> Fed(Head(bus))])
    /\ UNCHANGED <<cmd, pc, interrupted, cycleState, target_torque, cycles,
                   toDrive, drive>>

\* the SIGINT handler
Sigint ==
    /\ cmd # "none"
    /\ ~Terminated
    /\ ~interrupted
    /\ interrupted' = TRUE
    /\ UNCHANGED <<ctlVars, cmd, pc, call, cycleState, target_torque, cycles,
                   toDrive, bus, drive, trace>>

----------------------------------------------------------------------------
(* Main.cpp: the statements of main(). *)

\* a call of writeObject(s) or queryObject(s) on the messages
CallStatement(fn, messages, updateId, next) ==
    /\ call' = IF messages = <<>> THEN NoCall
               ELSE [fn |-> fn, todo |-> messages, updateId |-> updateId,
                     written |-> FALSE]
    /\ pc' = next
    /\ UNCHANGED <<cmd, interrupted, cycleState, target_torque, cycles,
                   toDrive, bus, drive, trace>>

\* device->write(msg) in main()
WriteStatement(msg, next) ==
    /\ toDrive' = Append(toDrive, msg)
    /\ trace' = Append(trace, [ev |-> "write", fn |-> "main", msg |-> msg,
                               updateId |-> {}])
    /\ pc' = next
    /\ UNCHANGED <<cmd, call, interrupted, cycleState, target_torque, cycles,
                   bus, drive>>

\* main() from its start to the dispatch on cmd
Start(command, target) ==
    /\ cmd = "none"
    /\ cmd' = command
    /\ pc' = "begin"
    /\ target_torque' = target
    /\ UNCHANGED <<ctlVars, call, interrupted, cycleState, cycles, toDrive, bus,
                   drive, trace>>

\* cmd == "get-state"
GetState ==
    /\ cmd = "get-state"
    /\ call.fn = "none"
    /\ \/ /\ pc = "begin"
          /\ CallStatement("queryObject", <<queryStatusWord>>, {"STATUS_WORD"}, "mode")
          /\ UNCHANGED ctlVars
       \/ /\ pc = "mode"
          /\ CallStatement("queryObject", <<queryOperationMode>>, {"OPERATION_MODE"},
                           "factors")
          /\ UNCHANGED ctlVars
       \/ /\ pc = "factors"
          /\ CallStatement("queryObject", queryFactors, UPDATE_FACTORS, "joint")
          /\ UNCHANGED ctlVars
       \/ /\ pc = "joint"
          /\ CallStatement("queryObject", queryJointState, UPDATE_JOINT_STATE, "print")
          /\ UNCHANGED ctlVars
       \/ /\ pc = "print"
          /\ LET out == getJointState(mCanOpen, mFactors, mZeroPosition,
                                      UPDATE_JOINT_STATE)
             IN  /\ ret' = [op |-> "getJointState", arg |-> UPDATE_JOINT_STATE,
                            out |-> out]
                 /\ trace' = Append(trace, [ev |-> "getJointState", kind |-> out.kind])
                 /\ pc' = IF out.kind = "ok" THEN "done" ELSE "aborted"
          /\ UNCHANGED <<mCanOpen, mRatedTorque, mFactors, mZeroPosition,
                         mMotorParameters, nFactorReports, ratedTorqueSupplied,
                         pdoVars, lastReported, cmd, call, interrupted, cycleState,
                         target_torque, cycles, toDrive, bus, drive>>

\* cmd == "get-config"
GetConfig ==
    /\ cmd = "get-config"
    /\ call.fn = "none"
    /\ \/ /\ pc = "begin"
          /\ CallStatement("queryObject", queryFactors, UPDATE_FACTORS, "getFactors")
          /\ UNCHANGED ctlVars
       \/ /\ pc = "getFactors"
          /\ ret' = [op |-> "getFactors", out |-> mFactors]
          /\ trace' = Append(trace, [ev |-> "getFactors", kind |-> "ok"])
          /\ pc' = "limits"
          /\ UNCHANGED <<mCanOpen, mRatedTorque, mFactors, mZeroPosition,
                         mMotorParameters, nFactorReports, ratedTorqueSupplied,
                         pdoVars, lastReported, cmd, call, interrupted, cycleState,
                         target_torque, cycles, toDrive, bus, drive>>
       \/ /\ pc = "limits"
          /\ CallStatement("queryObject", queryJointLimits, UPDATE_JOINT_LIMITS, "print")
          /\ UNCHANGED ctlVars
       \/ /\ pc = "print"
          /\ LET out == getJointLimits(mCanOpen, mFactors)
             IN  /\ ret' = [op |-> "getJointLimits", out |-> out]
                 /\ trace' = Append(trace, [ev |-> "getJointLimits", kind |-> out.kind])
                 /\ pc' = IF out.kind = "ok" THEN "done" ELSE "aborted"
          /\ UNCHANGED <<mCanOpen, mRatedTorque, mFactors, mZeroPosition,
                         mMotorParameters, nFactorReports, ratedTorqueSupplied,
                         pdoVars, lastReported, cmd, call, interrupted, cycleState,
                         target_torque, cycles, toDrive, bus, drive>>

\* most cycles of the set-torque and monitor-joint-state loops in one run
MaxCycles == 2

\* Update::merge: the bits of both
merge(update, other) == [update EXCEPT !.updated = @ \cup other.updated]

\* the wait ended as soon as one joint state field was reported
WaitOver_OneUpdated(flag, update) ==
    flag \/ hasOneUpdated(update, UPDATE_JOINT_STATE)

\* the negated condition of "while (!interrupted && !state.isUpdated(UPDATE_JOINT_STATE))"
WaitOver(flag, update) ==
    flag \/ isUpdated(update, UPDATE_JOINT_STATE)

\* the wait loop of both commands: it ends, or it reads one message and merges
\* what process() returns
Wait(next) ==
    IF WaitOver(interrupted, cycleState)
    THEN /\ pc' = next
         /\ UNCHANGED <<ctlVars, cmd, call, interrupted, cycleState, target_torque,
                        cycles, toDrive, bus, drive, trace>>
    ELSE /\ bus # <<>>
         /\ Feed(Head(bus))
         /\ bus' = Tail(bus)
         /\ cycleState' = merge(cycleState, Fed(Head(bus)))
         /\ trace' = Append(trace, [ev |-> "process", fn |-> "main", msg |-> Head(bus),
                                    out |-> Fed(Head(bus))])
         /\ UNCHANGED <<cmd, pc, call, interrupted, target_torque, cycles,
                        toDrive, drive>>

\* "Update state = Update()" (set-torque) and "state = Update()" (monitor) with
\* the device->write(sync) next to it
ResetAndSync(next) ==
    /\ cycleState' = UpdatedObjects({})
    /\ toDrive' = Append(toDrive, querySync)
    /\ trace' = trace \o <<[ev |-> "write", fn |-> "main", msg |-> querySync,
                            updateId |-> {}],
                          [ev |-> "reset"]>>
    /\ pc' = next
    /\ UNCHANGED <<ctlVars, cmd, call, interrupted, target_torque, cycles, bus, drive>>

\* the setup both commands share: the factors, then the joint state PDOs
\* configured between the two NMT commands
PdoSetup(next) ==
    \/ /\ pc = "begin"
       /\ CallStatement("queryObject", queryFactors, UPDATE_FACTORS, "nmt_preop")
       /\ UNCHANGED ctlVars
    \/ /\ pc = "nmt_preop"
       /\ WriteStatement(queryNodeStateTransition("NODE_ENTER_PRE_OPERATIONAL"), "pdo")
       /\ UNCHANGED ctlVars
    \/ /\ pc = "pdo"
       /\ LET r == queryPeriodicJointStateUpdate(mTPDOMappings, 0)
          IN  /\ mTPDOMappings' = r.tpdo
              /\ ret' = [op |-> "queryPeriodicJointStateUpdate",
                         out |-> [kind |-> "ok", messages |-> r.messages]]
              /\ CallStatement("writeObject", r.messages, {}, "nmt_start")
       /\ UNCHANGED <<mCanOpen, mRatedTorque, mFactors, mZeroPosition, mMotorParameters,
                      nFactorReports, ratedTorqueSupplied, mRPDOMappings, lastReported>>
    \/ /\ pc = "nmt_start"
       /\ WriteStatement(queryNodeStateTransition("NODE_START"), next)
       /\ UNCHANGED ctlVars

\* controller.getJointState() and what main() prints, in the loops
PrintJointState(setZero, next) ==
    LET out == getJointState(mCanOpen, mFactors, mZeroPosition, UPDATE_JOINT_STATE)
    IN  /\ ret' = [op |-> "getJointState", arg |-> UPDATE_JOINT_STATE, out |-> out]
        /\ trace' = Append(trace, [ev |-> "getJointState", kind |-> out.kind])
        /\ pc' = IF out.kind = "ok" THEN next ELSE "aborted"
        /\ mZeroPosition' = IF out.kind = "ok" /\ setZero /\ mZeroPosition = 0
                            THEN getRaw(mCanOpen, "PositionActualInternalValue")
                            ELSE mZeroPosition
        /\ UNCHANGED <<mCanOpen, mRatedTorque, mFactors, mMotorParameters,
                       nFactorReports, ratedTorqueSupplied, pdoVars, lastReported,
                       cmd, call, interrupted, cycleState, target_torque, cycles,
                       toDrive, bus, drive>>

\* writeObject(controller.setTorqueTarget(target)): the call, or the exception of
\* setTorqueTarget that ends main()
WriteTorqueTarget(factors, target, next) ==
    \E out \in setTorqueTarget(factors, target) :
        /\ ret' = [op |-> "setTorqueTarget", arg |-> target, out |-> out]
        /\ IF out.kind = "download"
           THEN CallStatement("writeObject", <<download(out.object, out.value)>>,
                              {}, next)
           ELSE /\ pc' = "aborted"
                /\ UNCHANGED <<cmd, call, interrupted, cycleState, target_torque,
                               cycles, toDrive, bus, drive, trace>>

\* the four writes with SWITCH_ON ahead of SHUTDOWN
EnablingWrites_SwitchOnFirst ==
    <<setOperationMode("OPERATION_MODE_CYCLIC_SYNCHRONOUS_TORQUE"),
      send("SWITCH_ON"), send("SHUTDOWN"), send("ENABLE_OPERATION")>>

\* the messages of the four writeObject calls that follow NODE_START in set-torque
EnablingWrites ==
    <<setOperationMode("OPERATION_MODE_CYCLIC_SYNCHRONOUS_TORQUE"),
      send("SHUTDOWN"), send("SWITCH_ON"), send("ENABLE_OPERATION")>>

\* cmd == "set-torque"
SetTorque ==
    /\ cmd = "set-torque"
    /\ call.fn = "none"
    /\ \/ PdoSetup("mode")
       \/ /\ pc = "mode"
          /\ CallStatement("writeObject", EnablingWrites, {}, "sync")
          /\ UNCHANGED ctlVars
       \/ /\ pc = "sync"
          /\ WriteStatement(querySync, "zero_target")
          /\ UNCHANGED ctlVars
       \/ /\ pc = "zero_target"
          /\ mFactors' = [mFactors EXCEPT !.encoderScaleFactor = Int2Dbl(1)]
          /\ WriteTorqueTarget(mFactors', Int2Dbl(0), "loop")
          /\ UNCHANGED <<mCanOpen, mRatedTorque, mZeroPosition, mMotorParameters,
                         nFactorReports, ratedTorqueSupplied, pdoVars, lastReported>>
       \/ /\ pc = "loop"
          /\ ~interrupted => cycles < MaxCycles
          /\ pc' = IF interrupted THEN "stop" ELSE "target"
          /\ cycles' = IF interrupted THEN cycles ELSE cycles + 1
          /\ UNCHANGED <<ctlVars, cmd, call, interrupted, cycleState, target_torque,
                         toDrive, bus, drive, trace>>
       \/ /\ pc = "target"
          /\ WriteTorqueTarget(mFactors, target_torque, "cycle")
          /\ UNCHANGED <<mCanOpen, mRatedTorque, mFactors, mZeroPosition,
                         mMotorParameters, nFactorReports, ratedTorqueSupplied,
                         pdoVars, lastReported>>
       \/ /\ pc = "cycle"
          /\ ResetAndSync("wait")
       \/ /\ pc = "wait"
          /\ Wait("if")
       \/ /\ pc = "if"
          /\ pc' = IF ~interrupted THEN "print" ELSE "loop"
          /\ UNCHANGED <<ctlVars, cmd, call, interrupted, cycleState, target_torque,
                         cycles, toDrive, bus, drive, trace>>
       \/ /\ pc = "print"
          /\ PrintJointState(TRUE, "loop")
       \/ /\ pc = "stop"
          /\ CallStatement("writeObject", <<setOperationMode("OPERATION_MODE_NONE")>>,
                           {}, "done")
          /\ UNCHANGED ctlVars

\* cmd == "monitor-joint-state", without --time
MonitorJointState ==
    /\ cmd = "monitor-joint-state"
    /\ call.fn = "none"
    /\ \/ PdoSetup("sync")
       \/ /\ pc = "sync"
          /\ WriteStatement(querySync, "cycle")
          /\ UNCHANGED ctlVars
       \/ /\ pc = "cycle"
          /\ cycles < MaxCycles
          /\ cycleState' = UpdatedObjects({})
          /\ toDrive' = Append(toDrive, querySync)
          /\ trace' = trace \o <<[ev |-> "reset"],
                                 [ev |-> "write", fn |-> "main", msg |-> querySync,
                                  updateId |-> {}]>>
          /\ cycles' = cycles + 1
          /\ pc' = "wait"
          /\ UNCHANGED <<ctlVars, cmd, call, interrupted, target_torque, bus, drive>>
       \/ /\ pc = "wait"
          /\ Wait("if")
       \/ /\ pc = "if"
          /\ pc' = IF interrupted THEN "done" ELSE "print"
          /\ UNCHANGED <<ctlVars, cmd, call, interrupted, cycleState, target_torque,
                         cycles, toDrive, bus, drive, trace>>
       \/ /\ pc = "print"
          /\ PrintJointState(FALSE, "cycle")

\* the torque targets given on the command line
CommandLineTorques == {Rat(1, 2), Int2Dbl(40)}

NextCli ==
    \/ \E command \in {"get-state", "get-config", "monitor-joint-state"} :
          Start(command, NaN)
    \/ \E target \in CommandLineTorques : Start("set-torque", target)
    \/ GetState
    \/ GetConfig
    \/ SetTorque
    \/ MonitorJointState
    \/ CallWrite
    \/ CallRead
    \/ DriveHandle
    \/ DriveHeartbeat
    \/ Sigint

SpecCli == Init /\ [][NextCli]_vars

----------------------------------------------------------------------------
(* The zero position part: reading a position and commanding it. *)

NextZero ==
    \/ \E msg \in StateMessages \cup {Upload("GearRatioNum", 2)} : Process(msg)
    \/ \E base \in ZeroPositions : SetZeroPosition(base)
    \/ \E fields \in {UPDATE_JOINT_POSITION, UPDATE_JOINT_POSITION \cup UPDATE_JOINT_VELOCITY} :
          GetJointState(fields)
    \/ CommandReportedPosition

SpecZero == Init /\ [][NextZero]_vars

----------------------------------------------------------------------------
(* Claims. *)

\* the raw object behind each ratio field of Factors and MotorParameters
RatioObject ==
    [encoderTicks |-> "PositionEncoderResolutionNum",
     encoderRevolutions |-> "PositionEncoderResolutionDen",
     gearMotorShaftRevolutions |-> "GearRatioNum",
     gearDrivingShaftRevolutions |-> "GearRatioDen",
     feedLength |-> "FeedConstantNum",
     feedDrivingShaftRevolutions |-> "FeedConstantDen"]

RatioFields == DOMAIN RatioObject

\* the last call was process() on a message that is not a write acknowledgment
ProcessedUpdate ==
    ret.op = "process" /\ ret.msg.mode # "PROCESSED_SDO_INITIATE_DOWNLOAD"

\* the last call was process() on a write acknowledgment
ProcessedAck ==
    ret.op = "process" /\ ret.msg.mode = "PROCESSED_SDO_INITIATE_DOWNLOAD"

\* C1: process() on a completed SDO download returns an Ack result that carries
\* the acknowledged object and reports no semantic group as updated, whatever the
\* object and the controller state.
C1_AckExcludesUpdate ==
    ProcessedAck =>
        /\ isAck(ret.out)
        /\ ret.out.ackId = ret.msg.updated[1].object
        /\ ret.out.updated = {}

\* an acknowledgment of a factor object was processed while overrides were stored
C1_Witness ==
    /\ ProcessedAck
    /\ ret.msg.updated[1].object \in FactorObjects
    /\ mMotorParameters = AllRatios
    /\ isAck(ret.out)

\* C2: in every state, each ratio field the stored MotorParameters override
\* (non-zero) has the MotorParameters' value in getFactors(), also after the
\* drive reported another value for its object.
C2_OverrideSurvival ==
    \A f \in RatioFields :
        mMotorParameters[f] # 0 => mFactors[f] = mMotorParameters[f]

\* the drive just reported a value for an overridden object and the override stands
C2_Witness ==
    /\ ProcessedUpdate
    /\ \E f \in RatioFields :
          /\ mMotorParameters[f] # 0
          /\ Carries(ret.msg, RatioObject[f])
          /\ ret.msg.updated[1].value # mMotorParameters[f]
          /\ mFactors[f] = mMotorParameters[f]

\* C3: right after each process() call whose result has the FACTORS bit,
\* getFactors() is the Factors computed from the raw cache, the cache holds the
\* stored overrides, and every reported object that is not overridden shows its
\* reported value in getFactors().
C3_FactorsRederived ==
    (ProcessedUpdate /\ hasOneUpdated(ret.out, UPDATE_FACTORS)) =>
        /\ mFactors = computeFactors(mCanOpen)
        /\ mCanOpen = OverrideRatios(mCanOpen, mMotorParameters)
        /\ mCanOpen = OverrideRatedTorque(mCanOpen, mMotorParameters)
        /\ \A i \in 1..Len(ret.msg.updated) :
              LET e == ret.msg.updated[i]
              IN  /\ \A f \in RatioFields :
                        (e.object = RatioObject[f] /\ mMotorParameters[f] = 0)
                            => mFactors[f] = e.value
                  /\ e.object = "MotorRatedCurrent"
                        => mFactors.ratedCurrent = Rat(e.value, 1000)
                  /\ (e.object = "MotorRatedTorque"
                        /\ IsNaN(mMotorParameters.torqueConstant))
                        => mFactors.ratedTorque = Rat(e.value, 1000)

\* a second refresh changed a value that is not overridden, and it shows
C3_Witness ==
    /\ ProcessedUpdate
    /\ nFactorReports = 2
    /\ ret.msg = Upload("PositionEncoderResolutionNum", 3)
    /\ mMotorParameters.encoderTicks = 0
    /\ mFactors.encoderTicks = 3
    /\ mFactors.gearDrivingShaftRevolutions = 2

\* x lies in [lo, hi]
InRange(x, lo, hi) ==
    ~IsNaN(x) /\ ~RLess(x, Int2Dbl(lo)) /\ ~RLess(Int2Dbl(hi), x)

\* since construction no factor object was reported and no MotorParameters or
\* encoder scale were set
OnlyRatedTorqueSet ==
    /\ mFactors = DefaultFactors
    /\ mMotorParameters = DefaultMotorParameters
    /\ nFactorReports = 0

\* C4: on a fresh controller setTorqueTarget fails with the precondition error;
\* after setRatedTorque(1.0) it succeeds for every target whose scaled value
\* lies in [-32768, 32767] and fails with the out-of-range error for +-40000.
C4_TorqueTargetNeedsRatedTorque ==
    (ret.op = "setTorqueTarget" /\ OnlyRatedTorqueSet) =>
        IF IsNaN(mRatedTorque)
        THEN ret.out.kind = "logic_error"
        ELSE /\ InRange(canopen_target(ret.arg, mRatedTorque), Int16Min, Int16Max)
                    => ret.out.kind = "download"
             /\ ret.arg \in {Int2Dbl(40000), Int2Dbl(-40000)}
                    => ret.out.kind = "out_of_range"

\* C5: whenever setTorqueTarget returns a write message, the scaled value fits
\* the signed 16 bit range and the message carries it; whenever the scaled value
\* does not fit, the call fails with the out-of-range error.
C5_TorqueRangeCheck ==
    (ret.op = "setTorqueTarget" /\ ~IsNaN(mFactors.ratedTorque)) =>
        LET t == canopen_target(ret.arg, mFactors.ratedTorque)
            fits == IsFinite(t) /\ Trunc(t) >= Int16Min /\ Trunc(t) <= Int16Max
        IN  /\ ret.out.kind = "download" => (fits /\ ret.out.value = Trunc(t))
            /\ ~fits => ret.out.kind = "out_of_range"

\* C6: as long as the rated torque was neither reported by the drive nor
\* supplied by the application, setTorqueTarget fails with the precondition error.
C6_UnknownRatedTorqueFails ==
    (ret.op = "setTorqueTarget" /\ ~ratedTorqueSupplied) =>
        ret.out.kind = "logic_error"

\* the group bits of every changed object of a message
RECURSIVE GroupsOf(_)
GroupsOf(updated) ==
    IF updated = <<>> THEN {}
    ELSE UPDATE_ID(Head(updated).object) \cup GroupsOf(Tail(updated))

C8_LimitSentinels ==
    (ret.op = "getJointLimits" /\ ret.out.kind = "ok") =>
        LET rawMin == getRaw(mCanOpen, "SoftwarePositionLimitMin")
            rawMax == getRaw(mCanOpen, "SoftwarePositionLimitMax")
            rawSpeed == getRaw(mCanOpen, "MaxMotorSpeed")
            min == ret.out.min
            max == ret.out.max
        IN  /\ (min.position = MinusInfinity /\ max.position = PlusInfinity)
                    <=> (rawMin = 0 /\ rawMax = 0)
            /\ ~(rawMin = 0 /\ rawMax = 0) =>
                    /\ min.position = rawToEncoder(mFactors, rawMin)
                    /\ max.position = rawToEncoder(mFactors, rawMax)
            /\ (min.speed = MinusInfinity /\ max.speed = PlusInfinity)
                    <=> rawSpeed < 0
            /\ rawSpeed >= 0 =>
                    /\ max.speed = rawToEncoder(mFactors, rawSpeed)
                    /\ min.speed = RNeg(max.speed)
            /\ min.acceleration = MinusInfinity
            /\ max.acceleration = PlusInfinity

\* limits were read with one position limit at 0 and a zero speed limit: neither
\* is the "no limit" case
C8_Witness ==
    /\ ret.op = "getJointLimits"
    /\ ret.out.kind = "ok"
    /\ getRaw(mCanOpen, "SoftwarePositionLimitMin") = 0
    /\ getRaw(mCanOpen, "SoftwarePositionLimitMax") = 100
    /\ getRaw(mCanOpen, "MaxMotorSpeed") = 0
    /\ mFactors.gearMotorShaftRevolutions = 2
    /\ ret.out.max.position = Int2Dbl(50)
    /\ ret.out.max.speed = Int2Dbl(0)

\* C9: the effort and current limits of getJointLimits are symmetric about zero
\* and both come from raw MaxCurrent; effort and current of getJointState both
\* come from raw CurrentActualValue; and with both rated values known
\* effort = current * (ratedTorque / ratedCurrent).
C9_TorqueAndCurrentShareRaw ==
    LET ratio == RDiv(mFactors.ratedTorque, mFactors.ratedCurrent)
    IN  /\ (ret.op = "getJointLimits" /\ ret.out.kind = "ok") =>
              LET limit == getRaw(mCanOpen, "MaxCurrent")
              IN  /\ ret.out.max.effort = rawToTorque(mFactors, limit)
                  /\ ret.out.max.raw = rawToCurrent(mFactors, limit)
                  /\ ret.out.min.effort = RNeg(ret.out.max.effort)
                  /\ ret.out.min.raw = RNeg(ret.out.max.raw)
                  /\ ret.out.max.effort = RMul(ret.out.max.raw, ratio)
        /\ (ret.op = "getJointState" /\ ret.out.kind = "ok"
                /\ ret.arg \cap UPDATE_JOINT_CURRENT # {}) =>
              LET actual == getRaw(mCanOpen, "CurrentActualValue")
              IN  /\ ret.out.state.effort = rawToTorque(mFactors, actual)
                  /\ ret.out.state.raw = rawToCurrent(mFactors, actual)
                  /\ ret.out.state.effort = RMul(ret.out.state.raw, ratio)

\* a joint state was read with a negative raw current and different rated values
C9_Witness ==
    /\ ret.op = "getJointState"
    /\ ret.out.kind = "ok"
    /\ getRaw(mCanOpen, "CurrentActualValue") = -250
    /\ mFactors.ratedTorque = Int2Dbl(3)
    /\ mFactors.ratedCurrent = Int2Dbl(2)
    /\ ret.out.state.raw = Rat(-1, 2)
    /\ ret.out.state.effort = Rat(-3, 4)

\* C10: getJointState(fields) sets exactly the requested fields and leaves the
\* others unset; it fails for a missing object exactly when a requested field's
\* object was never read; the position is the conversion of the raw position
\* minus the zero position, the speed the conversion of the raw velocity alone.
C10_JointStateFields ==
    ret.op = "getJointState" =>
        LET wantPosition == UPDATE_JOINT_POSITION \subseteq ret.arg
            wantVelocity == UPDATE_JOINT_VELOCITY \subseteq ret.arg
            wantCurrent == UPDATE_JOINT_CURRENT \subseteq ret.arg
            missing ==
                \/ wantPosition /\ ~has(mCanOpen, "PositionActualInternalValue")
                \/ wantVelocity /\ ~has(mCanOpen, "VelocityActualValue")
                \/ wantCurrent /\ ~has(mCanOpen, "CurrentActualValue")
        IN  /\ ret.out.kind = "ObjectNotRead" <=> missing
            /\ ret.out.kind = "PreconditionNotMet" =>
                    (wantCurrent /\ IsNaN(mFactors.ratedTorque))
            /\ ret.out.kind = "ok" =>
                    LET state == ret.out.state
                    IN  /\ ~IsNaN(state.position) <=> wantPosition
                        /\ ~IsNaN(state.speed) <=> wantVelocity
                        /\ ~IsNaN(state.effort) <=> wantCurrent
                        /\ ~IsNaN(state.raw) <=> wantCurrent
                        /\ IsNaN(state.acceleration)
                        /\ wantPosition => state.position =
                              rawToEncoder(mFactors,
                                  getRaw(mCanOpen, "PositionActualInternalValue")
                                      - mZeroPosition)
                        /\ wantVelocity => state.speed =
                              rawToEncoder(mFactors,
                                  getRaw(mCanOpen, "VelocityActualValue"))

\* position and speed were read with a non-zero zero position while the current
\* object was never read
C10_Witness ==
    /\ ret.op = "getJointState"
    /\ ret.arg = UPDATE_JOINT_POSITION \cup UPDATE_JOINT_VELOCITY
    /\ ret.out.kind = "ok"
    /\ ~has(mCanOpen, "CurrentActualValue")
    /\ mZeroPosition = 2
    /\ ret.out.state.position = Int2Dbl(3)
    /\ ret.out.state.speed = Int2Dbl(4)
    /\ IsNaN(ret.out.state.effort)

\* the raw target object behind each control mode that has one
TargetObject ==
    [POSITION |-> "TargetPosition", SPEED |-> "TargetVelocity", EFFORT |-> "TargetTorque"]

\* C11: configureControlPDO maps exactly one object in the control PDO,
\* TargetPosition for POSITION, TargetVelocity for SPEED, TargetTorque for
\* EFFORT, and declares it as the receive mapping of that PDO; for any other
\* control mode it fails with the invalid-argument error, produces no message
\* and declares no mapping, leaving the controller as it was.
C11_ControlPdoMapping ==
    [][ret'.op = "configureControlPDO" =>
          LET pdoIndex == ret'.arg.pdoIndex
              control_mode == ret'.arg.control_mode
          IN  IF control_mode \in DOMAIN TargetObject
              THEN /\ ret'.out.kind = "ok"
                   /\ mRPDOMappings' =
                        [mRPDOMappings EXCEPT ![pdoIndex] = <<TargetObject[control_mode]>>]
                   /\ \A i \in 1..Len(ret'.out.messages) :
                         /\ ret'.out.messages[i].pdoIndex = pdoIndex
                         /\ ~ret'.out.messages[i].transmit
                         /\ ret'.out.messages[i].kind = "PDO_MAPPING" =>
                               ret'.out.messages[i].mapping = <<TargetObject[control_mode]>>
                   /\ \E i \in 1..Len(ret'.out.messages) :
                         ret'.out.messages[i].kind = "PDO_MAPPING"
              ELSE /\ ret'.out.kind = "invalid_argument"
                   /\ ret'.out.messages = <<>>
                   /\ UNCHANGED <<mCanOpen, mRatedTorque, mFactors, mZeroPosition,
                                  mMotorParameters, pdoVars>>]_vars

\* a control PDO was configured for SPEED, and a later request for RAW on the
\* same PDO failed and left that mapping declared
C11_Witness ==
    /\ ret.op = "configureControlPDO"
    /\ ret.arg.control_mode = "RAW"
    /\ ret.out.kind = "invalid_argument"
    /\ mRPDOMappings[ret.arg.pdoIndex] = <<"TargetVelocity">>

\* the messages of a result that address the transmit PDO of the index
SlotOf(messages, pdoIndex) ==
    {i \in 1..Len(messages) : messages[i].pdoIndex = pdoIndex /\ messages[i].transmit}

\* C12: the messages of configureJointStateUpdatePDOs address the slots pdoIndex
\* and pdoIndex + 1 and no other; each of the two slots is either disabled with
\* a disable message, or configured with a non-empty mapping that is then the
\* declared transmit mapping of the slot; with an empty field mask both slots
\* are disabled.
C12_BothSlotsCovered ==
    ret.op = "configureJointStateUpdatePDOs" =>
        LET messages == ret.out.messages
            pdoIndex == ret.arg.pdoIndex
        IN  /\ SlotOf(messages, pdoIndex) \cup SlotOf(messages, pdoIndex + 1)
                    = 1..Len(messages)
            /\ \A slot \in {pdoIndex, pdoIndex + 1} :
                  LET disabled == \E i \in SlotOf(messages, slot) :
                                     messages[i].kind = "PDO_DISABLE"
                      mapped == {i \in SlotOf(messages, slot) :
                                     messages[i].kind = "PDO_MAPPING"}
                  IN  /\ SlotOf(messages, slot) # {}
                      /\ disabled <=> mapped = {}
                      /\ \A i \in mapped :
                            /\ messages[i].mapping # <<>>
                            /\ mTPDOMappings[slot] = messages[i].mapping
            /\ ret.arg.fields = {} =>
                  \A i \in 1..Len(messages) : messages[i].kind = "PDO_DISABLE"

\* only the velocity was requested: the first slot is configured and declared,
\* the second one is disabled
C12_Witness ==
    /\ ret.op = "configureJointStateUpdatePDOs"
    /\ ret.arg.fields = UPDATE_JOINT_VELOCITY
    /\ mTPDOMappings[ret.arg.pdoIndex] = <<"VelocityActualValue">>
    /\ \E i \in 1..Len(ret.out.messages) :
          /\ ret.out.messages[i].kind = "PDO_DISABLE"
          /\ ret.out.messages[i].pdoIndex = ret.arg.pdoIndex + 1

\* C13: for every field mask that requests position, velocity and current
\* together, whatever other bits it has, configureJointStateUpdatePDOs maps
\* position and velocity in the first slot and current in the second; no PDO
\* mapping ever holds all three.
C13_CurrentInSecondSlot ==
    /\ \A pdoIndex \in PdoIndices :
          ~(JointStateObjects \subseteq
                {mTPDOMappings[pdoIndex][i] : i \in 1..Len(mTPDOMappings[pdoIndex])})
    /\ (ret.op = "configureJointStateUpdatePDOs"
            /\ UPDATE_JOINT_STATE \subseteq ret.arg.fields) =>
          /\ mTPDOMappings[ret.arg.pdoIndex]
                = <<"PositionActualInternalValue", "VelocityActualValue">>
          /\ mTPDOMappings[ret.arg.pdoIndex + 1] = <<"CurrentActualValue">>

\* the raw target object behind each field of a setpoint
TargetField ==
    [position |-> "TargetPosition", speed |-> "TargetVelocity", effort |-> "TargetTorque"]

\* C14: setControlTargets stages each present field on its own: when the call
\* returns, the raw TargetPosition, TargetVelocity and TargetTorque of the
\* present fields hold the inverse conversion of the field; the target objects
\* of unset fields keep their cached value; no other object, no Factors and no
\* PDO mapping changes, and the call builds no message.
C14_TargetsStaged ==
    [][ret'.op = "setControlTargets" =>
          /\ ret'.out.kind = "ok" =>
                /\ hasField(ret'.arg, "position") =>
                      mCanOpen'["TargetPosition"] =
                          <<rawFromEncoder(mFactors, ret'.arg.position)>>
                /\ hasField(ret'.arg, "speed") =>
                      mCanOpen'["TargetVelocity"] =
                          <<rawFromEncoder(mFactors, ret'.arg.speed)>>
                /\ hasField(ret'.arg, "effort") =>
                      /\ rawFromTorque(mFactors, ret'.arg.effort).kind = "ok"
                      /\ mCanOpen'["TargetTorque"] =
                            <<rawFromTorque(mFactors, ret'.arg.effort).raw>>
          /\ \A field \in DOMAIN TargetField :
                ~hasField(ret'.arg, field) =>
                    mCanOpen'[TargetField[field]] = mCanOpen[TargetField[field]]
          /\ \A object \in Objects \ {"TargetPosition", "TargetVelocity", "TargetTorque"} :
                mCanOpen'[object] = mCanOpen[object]
          /\ ret'.out.messages = <<>>
          /\ UNCHANGED <<mFactors, mZeroPosition, mMotorParameters, pdoVars>>]_vars

\* a setpoint with a speed and an effort but no position was staged while an
\* earlier position target was in the cache
C14_Witness ==
    /\ ret.op = "setControlTargets"
    /\ ret.out.kind = "ok"
    /\ IsNaN(ret.arg.position)
    /\ ret.arg.speed = Int2Dbl(-2)
    /\ ret.arg.effort = Rat(1, 2)
    /\ mFactors.gearMotorShaftRevolutions = 3
    /\ mFactors.ratedTorque = Int2Dbl(1)
    /\ has(mCanOpen, "TargetPosition")
    /\ mCanOpen["TargetVelocity"] = <<-6>>
    /\ mCanOpen["TargetTorque"] = <<500>>

\* C15: applying again changes nothing: right after setMotorParameters(p), a
\* second setMotorParameters(p) leaves the raw cache and getFactors() as they
\* are, and right after a process() call that refreshed FACTORS, processing the
\* same message again with the same stored MotorParameters leaves them as they
\* are and returns the same result; the rated torque derived from the
\* torqueConstant does not compound.
C15_ReapplyIdempotent ==
    /\ ret.op = "setMotorParameters" =>
          LET again == setMotorParameters(mCanOpen, mFactors, ret.arg)
          IN  /\ again.cache = mCanOpen
              /\ again.factors = mFactors
              /\ ~again.threw
    /\ (ProcessedUpdate /\ hasOneUpdated(ret.out, UPDATE_FACTORS)) =>
          LET again == process(mCanOpen, mFactors, mMotorParameters, ret.msg)
          IN  /\ again.cache = mCanOpen
              /\ again.factors = mFactors
              /\ again.out = ret.out

\* MotorParameters with a torqueConstant were applied after the drive reported a
\* rated current and a rated torque, and the rated torque is current * constant
C15_Witness ==
    /\ ret.op = "setMotorParameters"
    /\ ret.arg = TicksAndTorqueConstant
    /\ nFactorReports = 2
    /\ mCanOpen["MotorRatedCurrent"] = <<2000>>
    /\ mCanOpen["MotorRatedTorque"] = <<3000>>
    /\ mFactors.ratedTorque = Int2Dbl(3)

\* C17: a ratio field that is 0 in the stored MotorParameters is not
\* overridden: right after a process() call in which the drive reports the
\* field's object, getFactors() shows the reported value for it.
C17_ZeroIsNoOverride ==
    ProcessedUpdate =>
        \A f \in RatioFields :
            (mMotorParameters[f] = 0 /\ Carries(ret.msg, RatioObject[f])) =>
                /\ lastReported[RatioObject[f]] # <<>>
                /\ mFactors[f] = lastReported[RatioObject[f]][1]
                /\ mFactors[f] # 0

\* the drive reported the gear ratio while the stored MotorParameters override
\* the encoder ticks only: the report shows, and so does the override
C17_Witness ==
    /\ ProcessedUpdate
    /\ mMotorParameters = TicksAndTorqueConstant
    /\ ret.msg = Upload("GearRatioNum", 2)
    /\ mFactors.gearMotorShaftRevolutions = 2
    /\ mFactors.encoderTicks = 7

\* the value a message carries for an object it carries once
ValueOf(msg, object) ==
    msg.updated[CHOOSE i \in 1..Len(msg.updated) : msg.updated[i].object = object].value

\* C16: with a known torqueConstant k in the stored MotorParameters, after every
\* process() call that refreshes FACTORS the raw MotorRatedTorque is the raw
\* rated current times k, as the integer the object holds, and
\* getFactors().ratedTorque is that raw value / 1000; in particular after a call
\* in which the drive reports MotorRatedCurrent = c it is c * k, whatever rated
\* torque the drive reported before or reports in that call.  With an unknown
\* torqueConstant a reported MotorRatedTorque is kept as reported, and a call
\* that reports none leaves the raw MotorRatedTorque as it was.
C16_TorqueTracksCurrent ==
    [][(ret'.op = "process" /\ ret'.msg.mode # "PROCESSED_SDO_INITIATE_DOWNLOAD") =>
          LET k == mMotorParameters'.torqueConstant
              msg == ret'.msg
          IN  /\ (~IsNaN(k) /\ hasOneUpdated(ret'.out, UPDATE_FACTORS)) =>
                    /\ Carries(msg, "MotorRatedCurrent") =>
                          mCanOpen'["MotorRatedCurrent"] =
                              <<ValueOf(msg, "MotorRatedCurrent")>>
                    /\ mCanOpen'["MotorRatedTorque"] =
                          <<Trunc(RMul(Int2Dbl(getRaw(mCanOpen', "MotorRatedCurrent")), k))>>
                    /\ mFactors'.ratedTorque =
                          Rat(getRaw(mCanOpen', "MotorRatedTorque"), 1000)
              /\ (IsNaN(k) /\ Carries(msg, "MotorRatedTorque")) =>
                    /\ mCanOpen'["MotorRatedTorque"] = <<ValueOf(msg, "MotorRatedTorque")>>
                    /\ mFactors'.ratedTorque = Rat(ValueOf(msg, "MotorRatedTorque"), 1000)
              /\ (IsNaN(k) /\ ~Carries(msg, "MotorRatedTorque")) =>
                    mCanOpen'["MotorRatedTorque"] = mCanOpen["MotorRatedTorque"]]_vars

\* the application gave the torqueConstant 3/2 and the drive, after an earlier
\* report, reported the rated current 3: the raw rated torque is 4
C16_Witness ==
    /\ ProcessedUpdate
    /\ ret.msg = Upload("MotorRatedCurrent", 3)
    /\ nFactorReports = 2
    /\ mMotorParameters = TicksAndTorqueConstant
    /\ mCanOpen["MotorRatedTorque"] = <<4>>
    /\ mFactors.ratedTorque = Rat(4, 1000)

\* C16 as stated: with a known torqueConstant k, after a process() call in which
\* the drive reports MotorRatedCurrent = c the raw MotorRatedTorque is c * k and
\* getFactors().ratedTorque is c * k / 1000; with an unknown torqueConstant a
\* reported MotorRatedTorque is kept.
C16_TorqueIsCurrentTimesConstant ==
    ProcessedUpdate =>
        LET k == mMotorParameters.torqueConstant
        IN  /\ (~IsNaN(k) /\ Carries(ret.msg, "MotorRatedCurrent")) =>
                  LET ck == RMul(Int2Dbl(ValueOf(ret.msg, "MotorRatedCurrent")), k)
                  IN  /\ Int2Dbl(getRaw(mCanOpen, "MotorRatedTorque")) = ck
                      /\ mFactors.ratedTorque = RDiv(ck, Int2Dbl(1000))
            /\ (IsNaN(k) /\ Carries(ret.msg, "MotorRatedTorque")) =>
                  mCanOpen["MotorRatedTorque"] = <<ValueOf(ret.msg, "MotorRatedTorque")>>

\* C18: a process() call whose result has no FACTORS bit, every Ack result
\* included, leaves getFactors() and the raw objects the overrides write (the
\* six ratio objects and MotorRatedTorque) unchanged; no process() call changes
\* the stored MotorParameters or the zero position.
C18_ProcessFrame ==
    [][ret'.op = "process" =>
          /\ mMotorParameters' = mMotorParameters
          /\ mZeroPosition' = mZeroPosition
          /\ (isAck(ret'.out) \/ ~hasOneUpdated(ret'.out, UPDATE_FACTORS)) =>
                /\ mFactors' = mFactors
                /\ \A object \in RatioObjects \cup {"MotorRatedTorque"} :
                      mCanOpen'[object] = mCanOpen[object]]_vars

\* a joint state PDO was processed while overrides, an encoder scale and a zero
\* position were in effect
C18_Witness ==
    /\ ProcessedUpdate
    /\ ret.msg.mode = "PROCESSED_PDO"
    /\ ret.out.updated = UPDATE_JOINT_POSITION \cup UPDATE_JOINT_VELOCITY
    /\ mMotorParameters = AllRatios
    /\ mFactors.encoderTicks = 11
    /\ mFactors.encoderScaleFactor = Int2Dbl(2)
    /\ mZeroPosition = 2

\* C19: the encoder scale factor given to setEncoderScaleFactor stays in effect:
\* no process() call and no setMotorParameters call changes
\* getFactors().encoderScaleFactor.
C19_EncoderScaleStays ==
    [][ret'.op \in {"process", "setMotorParameters"} =>
          mFactors'.encoderScaleFactor = mFactors.encoderScaleFactor]_vars

\* C20: in every state, each ratio field that is 0 in the stored MotorParameters
\* has in getFactors() the value the drive last reported for its object, or 1
\* when the drive never reported it.
C20_NonOverriddenFromDrive ==
    \A f \in RatioFields :
        mMotorParameters[f] = 0 =>
            mFactors[f] = IF lastReported[RatioObject[f]] = <<>> THEN 1
                          ELSE lastReported[RatioObject[f]][1]

\* C21: in every state each object computeFactors reads is in the raw cache;
\* no setMotorParameters call ends in the ObjectNotRead handler, and right
\* after every setMotorParameters call and every FACTORS refresh the cached
\* Factors are the ones computed from the cache.
C21_FactorObjectsPresent ==
    /\ \A object \in ComputeFactorsObjects : has(mCanOpen, object)
    /\ ret.op = "setMotorParameters" =>
          /\ ret.out = "void"
          /\ mFactors = computeFactors(mCanOpen)
    /\ (ProcessedUpdate /\ hasOneUpdated(ret.out, UPDATE_FACTORS)) =>
          mFactors = computeFactors(mCanOpen)

\* setMotorParameters was called on a controller the drive never reported to,
\* and replaced the default Factors
C21_Witness ==
    /\ ret.op = "setMotorParameters"
    /\ nFactorReports = 0
    /\ ret.arg = DefaultMotorParameters
    /\ mFactors.ratedTorque = Rat(1, 1000)
    /\ mFactors # DefaultFactors

\* the ratios of the Factors and the encoder scale are all 1
IdentityFactors ==
    /\ \A f \in RatioFields : mFactors[f] = 1
    /\ mFactors.encoderScaleFactor = Int2Dbl(1)

\* C23: with identity factors and any zero position, staging with
\* setControlTargets the position getJointState reports for the raw actual
\* position r stages the raw TargetPosition r.
C23_SameZeroFrame ==
    (/\ ret.op = "setControlTargets"
     /\ ret.out.kind = "ok"
     /\ IdentityFactors
     /\ has(mCanOpen, "PositionActualInternalValue")
     /\ ret.arg.position = PositionField(mCanOpen, mFactors, mZeroPosition)) =>
        mCanOpen["TargetPosition"] = mCanOpen["PositionActualInternalValue"]

\* C24: a setControlTargets call that fails has changed none of the raw
\* TargetPosition, TargetVelocity and TargetTorque objects.
C24_TargetsAllOrNothing ==
    [][(ret'.op = "setControlTargets" /\ ret'.out.kind # "ok") =>
          \A object \in {"TargetPosition", "TargetVelocity", "TargetTorque"} :
              mCanOpen'[object] = mCanOpen[object]]_vars

\* a cache that holds every object
FullCache == [object \in Objects |-> <<1>>]

\* the objects whose absence alone makes the getter fail with ObjectNotRead
ReadByComputeFactors ==
    {object \in Objects : computeFactorsThrows([FullCache EXCEPT ![object] = NotRead])}

ReadByGetJointState ==
    {object \in Objects :
        getJointState([FullCache EXCEPT ![object] = NotRead], DefaultFactors, 0,
                      UPDATE_JOINT_STATE).kind = "ObjectNotRead"}

ReadByGetJointLimits ==
    {object \in Objects :
        getJointLimits([FullCache EXCEPT ![object] = NotRead], DefaultFactors).kind
            = "ObjectNotRead"}

\* the objects a list of queries requests
Requested(queries) == {queries[i].object : i \in 1..Len(queries)}

\* the group bits process() reports for the drive's answer to a query
Classified(object) ==
    process(mCanOpen, mFactors, mMotorParameters, Upload(object, 1)).out.updated

\* C22: queryFactors, queryJointState and queryJointLimits request every object
\* computeFactors, getJointState and getJointLimits read; process() reports each
\* requested object in the group of its query; and a getter main() calls after
\* the queries of its group were answered never fails on an unread object.
C22_QueriesCoverGetters ==
    /\ ReadByComputeFactors \subseteq Requested(queryFactors)
    /\ ReadByGetJointState \subseteq Requested(queryJointState)
    /\ ReadByGetJointLimits \subseteq Requested(queryJointLimits)
    /\ \A object \in Requested(queryFactors) : Classified(object) = UPDATE_FACTORS
    /\ \A object \in Requested(queryJointState) :
          /\ Classified(object) # {}
          /\ Classified(object) \subseteq UPDATE_JOINT_STATE
    /\ \A object \in Requested(queryJointLimits) :
          Classified(object) = UPDATE_JOINT_LIMITS
    /\ (cmd # "none" /\ ret.op \in {"getJointState", "getJointLimits"}) =>
          ret.out.kind # "ObjectNotRead"

\* get-state printed a joint state after its queries
C22_Witness ==
    /\ cmd = "get-state"
    /\ pc = "done"
    /\ ret.op = "getJointState"
    /\ ret.out.kind = "ok"
    /\ \A object \in ReadByGetJointState : has(mCanOpen, object)

\* whether the Update is the reply the write of writeObject or queryObject waits for
ReplyTo(write, out) ==
    IF write.fn = "writeObject" THEN out.mode = "ACK"
    ELSE out.updated \cap write.updateId # {}

\* the trace from event i on keeps the lockstep, when pending holds the write of
\* writeObject or queryObject whose reply has not been processed yet: until the
\* reply is processed main() writes nothing and does nothing but process()
\* inside the call
RECURSIVE Lockstep(_, _)
Lockstep(i, pending) ==
    IF i > Len(trace) THEN TRUE
    ELSE LET e == trace[i]
         IN  IF e.ev = "process"
             THEN IF pending = <<>> THEN e.fn = "main" /\ Lockstep(i + 1, pending)
                  ELSE /\ e.fn = pending[1].fn
                       /\ Lockstep(i + 1, IF ReplyTo(pending[1], e.out) THEN <<>>
                                          ELSE pending)
             ELSE IF e.ev = "write" /\ e.fn # "main"
             THEN pending = <<>> /\ Lockstep(i + 1, <<e>>)
             ELSE pending = <<>> /\ Lockstep(i + 1, pending)

\* the messages handed to process(), in order
RECURSIVE Processed(_)
Processed(i) ==
    IF i > Len(trace) THEN <<>>
    ELSE IF trace[i].ev = "process" THEN <<trace[i].msg>> \o Processed(i + 1)
    ELSE Processed(i + 1)

\* the requests written and not yet handled, and the replies sent and not yet read
Outstanding ==
    Cardinality({i \in 1..Len(toDrive) :
                    toDrive[i].kind \notin {"sync", "nmt"}})
    + Cardinality({i \in 1..Len(bus) :
                    bus[i].mode \in {"PROCESSED_SDO_INITIATE_UPLOAD",
                                     "PROCESSED_SDO_INITIATE_DOWNLOAD"}})

\* C25: writeObject and queryObject write their message once and return only after
\* process() returned the Ack, or the update of the requested group, for a
\* message read after the write; writeObjects and queryObjects write the next
\* message only then; at most one request is outstanding; and the messages are
\* handed to process() in the order the drive sent them.
C25_Lockstep ==
    /\ Lockstep(1, <<>>)
    /\ Outstanding <= 1
    /\ Processed(1) \o bus = drive.sent
    /\ call.fn # "none" => Outstanding = (IF call.written THEN 1 ELSE 0)

\* set-torque ended after a writeObject call that processed a message that was
\* not its acknowledgment, and a queryObject call that processed a heartbeat
C25_Witness ==
    /\ cmd = "set-torque"
    /\ pc = "done"
    /\ call.fn = "none"
    /\ \E i \in 1..Len(trace) :
          /\ trace[i].ev = "process"
          /\ trace[i].fn = "writeObject"
          /\ trace[i].out.mode # "ACK"

\* the events of the trace that write the message
Writes(msg) == {i \in 1..Len(trace) : trace[i].ev = "write" /\ trace[i].msg = msg}

\* the events of the trace that write a torque target
TorqueWrites ==
    {i \in 1..Len(trace) : /\ trace[i].ev = "write"
                           /\ trace[i].msg.kind = "download"
                           /\ trace[i].msg.object = "TargetTorque"}

\* process() returned the acknowledgment of the object between events i and j
AckedBetween(i, j, object) ==
    \E k \in (i + 1)..(j - 1) : trace[k].ev = "process" /\ trace[k].out = Ack(object)

\* every write among later comes after a write among earlier and the
\* acknowledgment of the object that write sets
After(earlier, later, object) ==
    \A j \in later : \E i \in earlier : i < j /\ AckedBetween(i, j, object)

\* C26: set-torque writes the operation mode CYCLIC_SYNCHRONOUS_TORQUE, then the
\* control words SHUTDOWN, SWITCH_ON and ENABLE_OPERATION, each after the
\* acknowledgment of the one before; every torque target comes after the
\* acknowledgment of ENABLE_OPERATION and after the drive reported every object
\* of queryFactors; the first torque target is 0, and every other one comes
\* after its acknowledgment.
C26_EnablingOrder ==
    cmd = "set-torque" =>
        /\ After(Writes(setOperationMode("OPERATION_MODE_CYCLIC_SYNCHRONOUS_TORQUE")),
                 Writes(send("SHUTDOWN")), "ModesOfOperation")
        /\ After(Writes(send("SHUTDOWN")), Writes(send("SWITCH_ON")), "ControlWord")
        /\ After(Writes(send("SWITCH_ON")), Writes(send("ENABLE_OPERATION")),
                 "ControlWord")
        /\ After(Writes(send("ENABLE_OPERATION")), TorqueWrites, "ControlWord")
        /\ \A j \in TorqueWrites : \A object \in Requested(queryFactors) :
              \E k \in 1..(j - 1) : /\ trace[k].ev = "process"
                                    /\ Carries(trace[k].msg, object)
        /\ \A j \in TorqueWrites :
              \/ /\ trace[j].msg.value = 0
                 /\ \A i \in TorqueWrites : j <= i
              \/ \E i \in TorqueWrites : /\ trace[i].msg.value = 0
                                         /\ \A k \in TorqueWrites : i <= k
                                         /\ AckedBetween(i, j, "TargetTorque")

\* set-torque has written the user's torque target after the target 0
C26_Witness ==
    /\ cmd = "set-torque"
    /\ \E j \in TorqueWrites : trace[j].msg.value = 500
    /\ Writes(send("ENABLE_OPERATION")) # {}

\* the events of the trace of the given kind
Events(ev) == {i \in 1..Len(trace) : trace[i].ev = ev}

\* the last "state = Update()" before event j, 0 when there is none
LastReset(j) ==
    IF \E i \in Events("reset") : i < j
    THEN CHOOSE i \in Events("reset") :
            i < j /\ \A k \in Events("reset") : k < j => k <= i
    ELSE 0

\* the group bits process() returned between events i and j
MergedBetween(i, j) ==
    UNION {trace[k].out.updated : k \in {n \in Events("process") : i < n /\ n < j}}

\* the drive's value of the object was handed to process() between events i and j
CarriedBetween(i, j, object) ==
    \E k \in Events("process") : i < k /\ k < j /\ Carries(trace[k].msg, object)

\* C27: in the loops of set-torque and monitor-joint-state every cycle starts
\* from an empty Update, the Update of the cycle is the union of what process()
\* returned since, and getJointState is called only after the position, the
\* velocity and the current were all handed to process() and reported by it
\* since the cycle's reset.
C27_JointStateWait ==
    cmd \in {"set-torque", "monitor-joint-state"} =>
        /\ \A j \in Events("getJointState") :
              /\ LastReset(j) # 0
              /\ \A object \in JointStateObjects :
                    CarriedBetween(LastReset(j), j, object)
              /\ UPDATE_JOINT_STATE \subseteq MergedBetween(LastReset(j), j)
        /\ pc \in {"wait", "if", "print"} =>
              cycleState.updated = MergedBetween(LastReset(Len(trace) + 1),
                                                 Len(trace) + 1)

\* set-torque printed the joint state of its first cycle and was interrupted in
\* its second cycle with only a part of the joint state reported
C27_Witness ==
    /\ cmd = "set-torque"
    /\ pc = "loop"
    /\ interrupted
    /\ Cardinality(Events("reset")) = 2
    /\ Cardinality(Events("getJointState")) = 1
    /\ cycleState.updated = UPDATE_JOINT_POSITION \cup UPDATE_JOINT_VELOCITY

\* the last message main() wrote
LastWritten == trace[CHOOSE i \in Events("write") : \A k \in Events("write") : k <= i].msg

\* C28: once the interrupt flag is set, set-torque ends, and it ends with the
\* write of OPERATION_MODE_NONE as the last message written to the drive.
C28_ShutdownOnInterrupt ==
    (cmd = "set-torque" /\ interrupted /\ Terminated) =>
        /\ pc = "done"
        /\ LastWritten = setOperationMode("OPERATION_MODE_NONE")

====
